---------------------------- MODULE Spec2Model ----------------------------
(***************************************************************************)
(* A model of the multi-car elevator system: the floor model, the car      *)
(* process (state-machine main loop and network thread), the safety        *)
(* monitor, the internal button client and the dispatcher (controller).    *)
(*                                                                         *)
(* A floor label (a C string) is a record [bas, num, plus]: the text is an  *)
(* optional leading 'B', an optional '+' sign and the decimal digits of    *)
(* num; num = NoDigits stands for "no digits at all", so Lbl(FALSE,        *)
(* NoDigits) is the empty string "".  Car names are sequences of           *)
(* character codes.  Status strings are TLA+ strings.                      *)
(***************************************************************************)
EXTENDS Integers, Sequences, FiniteSets, TLC

\* ------------------------------------------------------------------ bounds

\* Highest regular floor and deepest basement floor of the modelled building.
MaxFloor == 2
MaxBasement == 1
\* Capacity of a modelled socket buffer (messages in flight in one direction).
MaxBuf == 2
\* TCP connections the dispatcher accepts in one behaviour.
MaxSessions == 2
\* CALL requests issued in one behaviour.
MaxCalls == 1
\* Runs of the button client and sensor changes in one behaviour.
MaxEvents == 2

\* ------------------------------------------------------------- floor model

NoDigits == -1

Lbl(b, n) == [bas |-> b, num |-> n, plus |-> FALSE]
EmptyStr == Lbl(FALSE, NoDigits)

\* The text "+n": digits with a sign in front, which strtol accepts.
Plus(n) == [bas |-> FALSE, num |-> n, plus |-> TRUE]

\* The label of a signed floor number (for writing the model's inputs).
F(n) == IF n < 0 THEN Lbl(TRUE, -n) ELSE Lbl(FALSE, n)

\* The number of decimal digits of n (4: more than three).
Digits(n) == IF n < 10 THEN 1 ELSE IF n < 100 THEN 2 ELSE IF n < 1000 THEN 3 ELSE 4

strlen(s) ==
  (IF s.bas THEN 1 ELSE 0) + (IF s.plus THEN 1 ELSE 0)
    + (IF s.num = NoDigits THEN 0 ELSE Digits(s.num))

\* parse_floor: [ok, numeric, is_basement].  A label with num = 0 is "0" or
\* "B0"; strtol gives 0 and the range test rejects it.  strtol reads a
\* leading sign, so "+n" parses as "n" does.
parse_floor(s) ==
  IF s.num = NoDigits \/ strlen(s) > 3
    THEN [ok |-> FALSE, numeric |-> 0, is_basement |-> FALSE]
  ELSE IF s.bas
    THEN IF s.num < 1 \/ s.num > 99
           THEN [ok |-> FALSE, numeric |-> 0, is_basement |-> FALSE]
           ELSE [ok |-> TRUE, numeric |-> -(s.num), is_basement |-> TRUE]
  ELSE IF s.num < 1 \/ s.num > 999
           THEN [ok |-> FALSE, numeric |-> 0, is_basement |-> FALSE]
           ELSE [ok |-> TRUE, numeric |-> s.num, is_basement |-> FALSE]

compare_floors(floor1, floor2) ==
  LET f1 == parse_floor(floor1)
      f2 == parse_floor(floor2)
  IN  IF ~f1.ok \/ ~f2.ok THEN 0
      ELSE IF f1.numeric < f2.numeric THEN -1
      ELSE IF f1.numeric > f2.numeric THEN 1
      ELSE 0

is_valid_floor_range(floor, lowest, highest) ==
  compare_floors(floor, lowest) >= 0 /\ compare_floors(floor, highest) <= 0

\* floor_to_string: the label written to output, "" when the number has none.
floor_to_string(numeric, is_basement) ==
  IF is_basement /\ numeric < 0
    THEN IF -numeric >= 1 /\ -numeric <= 99 THEN Lbl(TRUE, -numeric) ELSE EmptyStr
  ELSE IF ~is_basement /\ numeric >= 1
    THEN IF numeric >= 1 /\ numeric <= 999 THEN Lbl(FALSE, numeric) ELSE EmptyStr
  ELSE EmptyStr

\* next_floor_towards: [rc, output]; rc = 0 on success, -1 on failure.
next_floor_towards(current, destination, lowest, highest) ==
  LET curr == parse_floor(current)
      dest == parse_floor(destination)
  IN  IF ~curr.ok \/ ~dest.ok THEN [rc |-> -1, output |-> EmptyStr]
      ELSE LET direction == IF dest.numeric > curr.numeric THEN 1 ELSE -1
               next_numeric == curr.numeric + direction
               output == IF next_numeric < 0
                           THEN floor_to_string(next_numeric, TRUE)
                           ELSE floor_to_string(next_numeric, FALSE)
           IN  IF ~is_valid_floor_range(output, lowest, highest)
                 THEN [rc |-> -1, output |-> output]
                 ELSE [rc |-> 0, output |-> output]

\* Every valid label of the modelled building, lowest first.
FloorNums == ((-MaxBasement)..(-1)) \cup (1..MaxFloor)
FloorLabels == {F(n) : n \in FloorNums}


\* ------------------------------------------------------------------ state

VARIABLES
  shm,          \* car_shared_mem: the car's shared-state record
  car,          \* car_state: the car process's own record (car.c)
  mainT,        \* the car's main loop: where it is, and its locals
  netT,         \* the car's network thread: where it is, and its locals
  open_elapsed, \* time since open_start (CLOCK_MONOTONIC - open_start)
  safety,       \* the safety monitor process
  cars,         \* ctrl.cars[0 .. car_count-1]: the dispatcher's car records
  sessions,     \* the TCP connections the dispatcher accepted, by descriptor
  calls,        \* the CALL requests handled so far, with the reply to each
  events,       \* button-client runs and sensor changes so far
  shutdown_requested, \* the flag SIGINT sets, in the car and in the dispatcher
  ctrl          \* controller_state: the dispatcher's running flag and main thread

vars == <<shm, car, mainT, netT, open_elapsed, safety, cars, sessions,
          calls, events, shutdown_requested, ctrl>>

dispvars == <<cars, sessions, calls>>

sigvars == <<shutdown_requested, ctrl>>

\* The car's dwell: delay_ms, in clock ticks.
DelayTicks == 2

\* A descriptor of a connection whose peer is not the modelled dispatcher.
AbstractFd == 0

Msg(t, a) == [type |-> t, args |-> a]

\* create_shared_memory: the record's fields after initialisation.
create_shared_memory(lowest_floor) ==
  [current_floor |-> lowest_floor, destination_floor |-> lowest_floor,
   status |-> "Closed", open_button |-> 0, close_button |-> 0,
   safety_system |-> 0, door_obstruction |-> 0, overload |-> 0,
   emergency_stop |-> 0, individual_service_mode |-> 0, emergency_mode |-> 0]

\* ------------------------------------------------------- car: main loop

\* A handle_open_button that clears the flag only when it opens the doors.
handle_open_button_keeps_flag(s) ==
  IF s.open_button # 0 /\ (s.status = "Closed" \/ s.status = "Closing")
    THEN [s EXCEPT !.open_button = 0, !.status = "Opening"]
    ELSE s

handle_open_button(s) ==
  IF s.open_button # 0
    THEN IF s.status = "Closed" \/ s.status = "Closing"
           THEN [s EXCEPT !.open_button = 0, !.status = "Opening"]
           ELSE [s EXCEPT !.open_button = 0]
    ELSE s

handle_close_button(s) ==
  IF s.close_button # 0
    THEN IF s.status = "Open"
           THEN [s EXCEPT !.close_button = 0, !.status = "Closing"]
           ELSE [s EXCEPT !.close_button = 0]
    ELSE s

\* The Closed branch of the main loop, on the record s.
ClosedBranch(s) ==
  LET need_move == s.current_floor # s.destination_floor
      emergency == s.emergency_mode
      valid_dest == IF need_move
                      THEN is_valid_floor_range(s.destination_floor, car.lowest, car.highest)
                      ELSE TRUE
      s1 == IF need_move /\ ~valid_dest
              THEN [s EXCEPT !.destination_floor = s.current_floor]
              ELSE s
  IN  IF need_move /\ emergency = 0 /\ valid_dest
        THEN [s1 EXCEPT !.status = "Between"]
        ELSE s1

\* A Between branch that stops with the doors Closed whatever service_mode is.
BetweenStep_arrives_closed(s, service_mode) ==
  IF s.status = "Between"
    THEN LET r == next_floor_towards(s.current_floor, s.destination_floor,
                                     car.lowest, car.highest)
             s1 == IF r.rc = 0 THEN [s EXCEPT !.current_floor = r.output] ELSE s
         IN  IF s1.current_floor = s1.destination_floor
               THEN [s1 EXCEPT !.status = "Closed"]
               ELSE s1
    ELSE s

\* The Between branch after the travel delay, on the record s; service_mode is
\* the value read before the delay.
BetweenStep(s, service_mode) ==
  IF s.status = "Between"
    THEN LET r == next_floor_towards(s.current_floor, s.destination_floor,
                                     car.lowest, car.highest)
             s1 == IF r.rc = 0 THEN [s EXCEPT !.current_floor = r.output] ELSE s
         IN  IF s1.current_floor = s1.destination_floor
               THEN IF service_mode # 0
                      THEN [s1 EXCEPT !.status = "Closed"]
                      ELSE [s1 EXCEPT !.status = "Opening"]
               ELSE s1
    ELSE s

\* One pass of the main loop from the lock at its top to the first unlock.
MainLoop ==
  /\ mainT.pc = "top"
  /\ car.running # 0 /\ shutdown_requested.car = 0
  /\ LET s == handle_close_button(handle_open_button(shm))
     IN CASE s.status = "Opening" ->
               /\ shm' = s
               /\ mainT' = [mainT EXCEPT !.pc = "opening_delay"]
               /\ UNCHANGED open_elapsed
          [] s.status = "Open" ->
               LET extend == s.open_button # 0
               IN  /\ shm' = IF extend THEN [s EXCEPT !.open_button = 0] ELSE s
                   /\ open_elapsed' = IF extend THEN 0 ELSE open_elapsed
                   /\ mainT' = [mainT EXCEPT !.pc = "open_check"]
          [] s.status = "Closing" ->
               /\ shm' = s
               /\ mainT' = [mainT EXCEPT !.pc = "closing_delay"]
               /\ UNCHANGED open_elapsed
          [] s.status = "Closed" ->
               /\ shm' = ClosedBranch(s)
               /\ UNCHANGED <<mainT, open_elapsed>>
          [] s.status = "Between" ->
               /\ shm' = s
               /\ mainT' = [pc |-> "between_delay",
                            service_mode |-> s.individual_service_mode]
               /\ UNCHANGED open_elapsed
  /\ UNCHANGED <<sigvars, car, netT, safety, dispvars, events>>

\* Opening branch, after delay_ms: Open unless the status changed meanwhile.
MainOpeningDone ==
  /\ mainT.pc = "opening_delay"
  /\ IF shm.status = "Opening"
       THEN shm' = [shm EXCEPT !.status = "Open"] /\ open_elapsed' = 0
       ELSE UNCHANGED <<shm, open_elapsed>>
  /\ mainT' = [mainT EXCEPT !.pc = "top"]
  /\ UNCHANGED <<sigvars, car, netT, safety, dispvars, events>>

\* Open branch, after the unlock: the dwell test, and Closing when it is over.
MainOpenCheck ==
  /\ mainT.pc = "open_check"
  /\ IF open_elapsed >= DelayTicks
          /\ shm.status = "Open" /\ shm.individual_service_mode = 0
       THEN shm' = [shm EXCEPT !.status = "Closing"]
       ELSE UNCHANGED shm
  /\ mainT' = [mainT EXCEPT !.pc = "top"]
  /\ UNCHANGED <<sigvars, car, netT, open_elapsed, safety, dispvars, events>>

\* A Closing branch that writes Closed without looking at the status again.
MainClosingDone_without_retest ==
  /\ mainT.pc = "closing_delay"
  /\ shm' = [shm EXCEPT !.status = "Closed"]
  /\ mainT' = [mainT EXCEPT !.pc = "top"]
  /\ UNCHANGED <<sigvars, car, netT, open_elapsed, safety, dispvars, events>>

\* Closing branch, after delay_ms: Closed unless the status changed meanwhile.
MainClosingDone ==
  /\ mainT.pc = "closing_delay"
  /\ IF shm.status = "Closing"
       THEN shm' = [shm EXCEPT !.status = "Closed"]
       ELSE UNCHANGED shm
  /\ mainT' = [mainT EXCEPT !.pc = "top"]
  /\ UNCHANGED <<sigvars, car, netT, open_elapsed, safety, dispvars, events>>

\* Between branch, after delay_ms: one floor towards the destination.
MainBetweenDone ==
  /\ mainT.pc = "between_delay"
  /\ shm' = BetweenStep(shm, mainT.service_mode)
  /\ mainT' = [mainT EXCEPT !.pc = "top"]
  /\ UNCHANGED <<sigvars, car, netT, open_elapsed, safety, dispvars, events>>

\* CLOCK_MONOTONIC advances while the doors dwell open.
Tick ==
  /\ shm.status = "Open"
  /\ open_elapsed < DelayTicks
  /\ open_elapsed' = open_elapsed + 1
  /\ UNCHANGED <<sigvars, shm, car, mainT, netT, safety, dispvars, events>>

CarMain ==
  \/ MainLoop
  \/ MainOpeningDone
  \/ MainOpenCheck
  \/ MainClosingDone
  \/ MainBetweenDone


\* -------------------------------------------------- car: network thread

NoStatus == Msg("", <<>>)

\* A TCP connection: what the car wrote and the dispatcher has not read (c2d),
\* what the dispatcher wrote and the car has not read (d2c), which ends are
\* open, where the connection's handler thread in the dispatcher is, and the
\* car record that handler works on.  Connection AbstractFd is to a peer that
\* is not the modelled dispatcher (handler "peer").
Session(h, first) ==
  [c2d |-> first, d2c |-> <<>>, car_open |-> TRUE, disp_open |-> TRUE,
   handler |-> h, car |-> 0]

IdleSession == [Session("peer", <<>>) EXCEPT !.car_open = FALSE]

\* write_message(fd, msg) by the car: lost when the peer has closed; a peer
\* that is not the dispatcher reads it at once.
CarWrite(ss, fd, msg) ==
  IF ss[fd].disp_open /\ ss[fd].handler # "peer"
    THEN [ss EXCEPT ![fd].c2d = Append(@, msg)]
    ELSE ss

\* close(fd) by the car: what it has not read is discarded.
CarClose(ss, fd) == [ss EXCEPT ![fd].car_open = FALSE, ![fd].d2c = <<>>]

\* write() blocks (EAGAIN, retried) while the peer's buffer is full.
CanWrite(fd) ==
  IF sessions[fd].disp_open /\ sessions[fd].handler # "peer"
    THEN Len(sessions[fd].c2d) < MaxBuf
    ELSE TRUE

Disconnected(c) == [c EXCEPT !.connected = 0, !.controller_fd = -1]

\* Top of a network cycle: the snapshot taken under the mutex.
NetSnapshot ==
  /\ netT.pc = "snapshot"
  /\ car.running # 0 /\ shutdown_requested.car = 0
  /\ netT' = [pc |-> "connect",
              should_connect |-> (shm.safety_system > 0 /\ shm.safety_system < 3
                                  /\ shm.individual_service_mode = 0
                                  /\ shm.emergency_mode = 0),
              service_mode |-> shm.individual_service_mode]
  /\ UNCHANGED <<sigvars, shm, car, mainT, open_elapsed, safety, dispvars, events>>

\* The connections after connect() succeeded with descriptor fd and the car
\* wrote its CAR message.
Connected(ss, fd) ==
  IF fd = AbstractFd
    THEN [ss EXCEPT ![fd] = Session("peer", <<>>)]
    ELSE [i \in 0..fd |->
            IF i = fd
              THEN Session("accept", <<Msg("CAR", <<car.name, car.lowest, car.highest>>)>>)
              ELSE ss[i]]

\* A NetConnect that sends INDIVIDUAL SERVICE before every disconnection.
NetConnect_always_announces(fd) ==
  /\ netT.pc = "connect"
  /\ IF netT.should_connect /\ car.connected = 0
       THEN IF fd >= 0
              THEN /\ car' = [car EXCEPT !.connected = 1, !.controller_fd = fd,
                                         !.last_sent_status = NoStatus]
                   /\ sessions' = Connected(sessions, fd)
              ELSE /\ car' = [car EXCEPT !.controller_fd = -1]
                   /\ UNCHANGED sessions
     ELSE IF ~netT.should_connect /\ car.connected # 0
       THEN /\ CanWrite(car.controller_fd)
            /\ sessions' = CarClose(CarWrite(sessions, car.controller_fd,
                                             Msg("INDIVIDUAL SERVICE", <<>>)),
                                    car.controller_fd)
            /\ car' = Disconnected(car)
     ELSE UNCHANGED <<car, sessions>>
  /\ netT' = [netT EXCEPT !.pc = IF car'.connected # 0 THEN "status" ELSE "snapshot"]
  /\ UNCHANGED <<sigvars, shm, mainT, open_elapsed, safety, cars, calls, events>>

\* Connect or disconnect as the snapshot says; fd is what
\* connect_to_controller returns (-1: no connection).
NetConnect(fd) ==
  /\ netT.pc = "connect"
  /\ IF netT.should_connect /\ car.connected = 0
       THEN IF fd >= 0
              THEN /\ car' = [car EXCEPT !.connected = 1, !.controller_fd = fd,
                                         !.last_sent_status = NoStatus]
                   /\ sessions' = Connected(sessions, fd)
              ELSE /\ car' = [car EXCEPT !.controller_fd = -1]
                   /\ UNCHANGED sessions
     ELSE IF ~netT.should_connect /\ car.connected # 0
       THEN /\ netT.service_mode # 0 => CanWrite(car.controller_fd)
            /\ sessions' = CarClose(IF netT.service_mode # 0
                                      THEN CarWrite(sessions, car.controller_fd,
                                                    Msg("INDIVIDUAL SERVICE", <<>>))
                                      ELSE sessions,
                                    car.controller_fd)
            /\ car' = Disconnected(car)
     ELSE UNCHANGED <<car, sessions>>
  /\ netT' = [netT EXCEPT !.pc = IF car'.connected # 0 THEN "status" ELSE "snapshot"]
  /\ UNCHANGED <<sigvars, shm, mainT, open_elapsed, safety, cars, calls, events>>

\* STATUS, sent when it differs from the last one sent.
NetStatus ==
  /\ netT.pc = "status"
  /\ LET status_msg == Msg("STATUS", <<shm.status, shm.current_floor, shm.destination_floor>>)
         send_status == status_msg # car.last_sent_status
     IN  IF send_status /\ ~sessions[car.controller_fd].disp_open
           THEN \* write_message fails: the connection is dropped
                /\ car' = Disconnected([car EXCEPT !.last_sent_status = status_msg])
                /\ sessions' = CarClose(sessions, car.controller_fd)
                /\ netT' = [netT EXCEPT !.pc = "snapshot"]
           ELSE /\ send_status => CanWrite(car.controller_fd)
                /\ car' = [car EXCEPT !.last_sent_status = status_msg]
                /\ sessions' = IF send_status
                                 THEN CarWrite(sessions, car.controller_fd, status_msg)
                                 ELSE sessions
                /\ netT' = [netT EXCEPT !.pc = "recv"]
  /\ UNCHANGED <<sigvars, shm, mainT, open_elapsed, safety, cars, calls, events>>

\* FLOOR <floor> received, on the record s.
floor_message(s, floor) ==
  IF s.status # "Between"
    THEN IF floor = s.current_floor
           THEN IF s.status = "Closed" THEN [s EXCEPT !.status = "Opening"] ELSE s
           ELSE IF parse_floor(floor).ok
                  THEN [s EXCEPT !.destination_floor = floor]
                  ELSE s
    ELSE s

\* select() and read_message(): one message, the end of the stream, or nothing.
NetRecv ==
  /\ netT.pc = "recv"
  /\ LET fd == car.controller_fd
     IN  IF sessions[fd].d2c # <<>>
           THEN LET msg == Head(sessions[fd].d2c)
                IN  /\ sessions' = [sessions EXCEPT ![fd].d2c = Tail(@)]
                    /\ shm' = IF msg.type = "FLOOR"
                                THEN floor_message(shm, msg.args[1])
                                ELSE shm
                    /\ netT' = [netT EXCEPT !.pc = "heartbeat"]
                    /\ UNCHANGED car
         ELSE IF ~sessions[fd].disp_open
           THEN /\ car' = Disconnected(car)
                /\ sessions' = CarClose(sessions, fd)
                /\ netT' = [netT EXCEPT !.pc = "snapshot"]
                /\ UNCHANGED shm
         ELSE /\ netT' = [netT EXCEPT !.pc = "heartbeat"]
              /\ UNCHANGED <<shm, car, sessions>>
  /\ UNCHANGED <<sigvars, mainT, open_elapsed, safety, cars, calls, events>>

\* The heartbeat: the counter goes up, and at 3 the car enters emergency mode.
heartbeat(s) ==
  LET s1 == IF s.safety_system < 3 THEN [s EXCEPT !.safety_system = @ + 1] ELSE s
  IN  IF s1.safety_system >= 3 THEN [s1 EXCEPT !.emergency_mode = 1] ELSE s1

NetHeartbeat ==
  /\ netT.pc = "heartbeat"
  /\ LET entered_emergency == heartbeat(shm).safety_system >= 3
     IN  /\ shm' = heartbeat(shm)
         /\ IF entered_emergency
              THEN /\ CanWrite(car.controller_fd)
                   /\ sessions' = CarClose(CarWrite(sessions, car.controller_fd,
                                                    Msg("EMERGENCY", <<>>)),
                                           car.controller_fd)
                   /\ car' = Disconnected(car)
              ELSE UNCHANGED <<car, sessions>>
  /\ netT' = [netT EXCEPT !.pc = "snapshot"]
  /\ safety' = [safety EXCEPT !.ran = FALSE]
  /\ UNCHANGED <<sigvars, mainT, open_elapsed, cars, calls, events>>

\* --------------------------------------------------------- safety monitor

validate_floor_string(floor_str) == parse_floor(floor_str).ok

is_valid_status(status) ==
  status \in {"Opening", "Open", "Closing", "Closed", "Between"}

is_valid_uint8_value(value, max_val) == value <= max_val

validate_obstruction_status_consistency(s) ==
  IF s.door_obstruction = 1
    THEN s.status = "Opening" \/ s.status = "Closing"
    ELSE TRUE

perform_safety_validation(s) ==
  /\ validate_floor_string(s.current_floor)
  /\ validate_floor_string(s.destination_floor)
  /\ is_valid_status(s.status)
  /\ is_valid_uint8_value(s.open_button, 1)
  /\ is_valid_uint8_value(s.close_button, 1)
  /\ is_valid_uint8_value(s.door_obstruction, 1)
  /\ is_valid_uint8_value(s.overload, 1)
  /\ is_valid_uint8_value(s.emergency_stop, 1)
  /\ is_valid_uint8_value(s.individual_service_mode, 1)
  /\ is_valid_uint8_value(s.emergency_mode, 1)
  /\ is_valid_uint8_value(s.safety_system, 3)
  /\ validate_obstruction_status_consistency(s)

handle_safety_violation(s) == [s EXCEPT !.emergency_mode = 1]

\* process_safety_actions without the reversal of closing doors.
process_safety_actions_no_reversal(s) ==
  LET s1 == IF s.safety_system = 0 THEN [s EXCEPT !.safety_system = 1] ELSE s
      s3 == IF s1.emergency_stop = 1 /\ s1.emergency_mode = 0
              THEN [handle_safety_violation(s1) EXCEPT !.emergency_stop = 0]
              ELSE s1
      s4 == IF s3.overload = 1 /\ s3.emergency_mode = 0
              THEN handle_safety_violation(s3)
              ELSE s3
  IN  IF s4.emergency_mode # 1 /\ ~perform_safety_validation(s4)
        THEN handle_safety_violation(s4)
        ELSE s4

\* process_safety_actions without the test of the overload sensor.
process_safety_actions_ignores_overload(s) ==
  LET s1 == IF s.safety_system = 0 THEN [s EXCEPT !.safety_system = 1] ELSE s
      s2 == IF s1.door_obstruction = 1 /\ s1.status = "Closing"
              THEN [s1 EXCEPT !.status = "Opening"]
              ELSE s1
      s3 == IF s2.emergency_stop = 1 /\ s2.emergency_mode = 0
              THEN [handle_safety_violation(s2) EXCEPT !.emergency_stop = 0]
              ELSE s2
  IN  IF s3.emergency_mode # 1 /\ ~perform_safety_validation(s3)
        THEN handle_safety_violation(s3)
        ELSE s3

\* process_safety_actions clearing the overload flag as it clears
\* emergency_stop.
process_safety_actions_clears_overload(s) ==
  LET s1 == IF s.safety_system = 0 THEN [s EXCEPT !.safety_system = 1] ELSE s
      s2 == IF s1.door_obstruction = 1 /\ s1.status = "Closing"
              THEN [s1 EXCEPT !.status = "Opening"]
              ELSE s1
      s3 == IF s2.emergency_stop = 1 /\ s2.emergency_mode = 0
              THEN [handle_safety_violation(s2) EXCEPT !.emergency_stop = 0]
              ELSE s2
      s4 == IF s3.overload = 1 /\ s3.emergency_mode = 0
              THEN [handle_safety_violation(s3) EXCEPT !.overload = 0]
              ELSE s3
  IN  IF s4.emergency_mode # 1 /\ ~perform_safety_validation(s4)
        THEN handle_safety_violation(s4)
        ELSE s4

process_safety_actions(s) ==
  LET s1 == IF s.safety_system = 0 THEN [s EXCEPT !.safety_system = 1] ELSE s
      s2 == IF s1.door_obstruction = 1 /\ s1.status = "Closing"
              THEN [s1 EXCEPT !.status = "Opening"]
              ELSE s1
      s3 == IF s2.emergency_stop = 1 /\ s2.emergency_mode = 0
              THEN [handle_safety_violation(s2) EXCEPT !.emergency_stop = 0]
              ELSE s2
      s4 == IF s3.overload = 1 /\ s3.emergency_mode = 0
              THEN handle_safety_violation(s3)
              ELSE s3
  IN  IF s4.emergency_mode # 1 /\ ~perform_safety_validation(s4)
        THEN handle_safety_violation(s4)
        ELSE s4

\* One cycle of the monitor's loop: the timed wait, then the checks.
SafetyCycle ==
  /\ safety.alive
  /\ shm' = process_safety_actions(shm)
  /\ safety' = [safety EXCEPT !.ran = TRUE]
  /\ UNCHANGED <<sigvars, car, mainT, netT, open_elapsed, dispvars, events>>

\* The monitor process is started (safety <name>).
SafetyStart ==
  /\ ~safety.alive
  /\ safety' = [safety EXCEPT !.alive = TRUE]
  /\ UNCHANGED <<sigvars, shm, car, mainT, netT, open_elapsed, dispvars, events>>

\* The monitor process ends (killed, or SIGINT).
SafetyStop ==
  /\ safety.alive
  /\ safety' = [safety EXCEPT !.alive = FALSE]
  /\ UNCHANGED <<sigvars, shm, car, mainT, netT, open_elapsed, dispvars, events>>

\* ---------------------------------------------- internal (button client)

Operations == {"open", "close", "stop", "service_on", "service_off", "up", "down"}

\* up / down, accepted: the destination becomes the adjacent floor.
internal_step(s, operation) ==
  LET current_info == parse_floor(s.current_floor)
  IN  IF current_info.ok
        THEN LET direction == IF operation = "up" THEN 1 ELSE -1
                 n == current_info.numeric + direction
                 next_numeric == IF n = 0 THEN direction ELSE n
                 next_floor == IF next_numeric < 0
                                 THEN floor_to_string(next_numeric, TRUE)
                                 ELSE floor_to_string(next_numeric, FALSE)
             IN  [s EXCEPT !.destination_floor = next_floor]
        ELSE s

\* internal with service_off clearing emergency_mode as service_on does.
internal_service_off_clears(s, operation) ==
  CASE operation = "open" -> [s EXCEPT !.open_button = 1]
    [] operation = "close" -> [s EXCEPT !.close_button = 1]
    [] operation = "stop" -> [s EXCEPT !.emergency_stop = 1]
    [] operation = "service_on" ->
         [s EXCEPT !.individual_service_mode = 1, !.emergency_mode = 0]
    [] operation = "service_off" ->
         [s EXCEPT !.individual_service_mode = 0, !.emergency_mode = 0]
    [] operation \in {"up", "down"} ->
         IF s.individual_service_mode = 0 THEN s
         ELSE IF s.status # "Closed" THEN s
         ELSE internal_step(s, operation)

\* internal with up and down accepted whatever the status is.
internal_any_status(s, operation) ==
  CASE operation = "open" -> [s EXCEPT !.open_button = 1]
    [] operation = "close" -> [s EXCEPT !.close_button = 1]
    [] operation = "stop" -> [s EXCEPT !.emergency_stop = 1]
    [] operation = "service_on" ->
         [s EXCEPT !.individual_service_mode = 1, !.emergency_mode = 0]
    [] operation = "service_off" -> [s EXCEPT !.individual_service_mode = 0]
    [] operation \in {"up", "down"} ->
         IF s.individual_service_mode = 0 THEN s
         ELSE internal_step(s, operation)

internal(s, operation) ==
  CASE operation = "open" -> [s EXCEPT !.open_button = 1]
    [] operation = "close" -> [s EXCEPT !.close_button = 1]
    [] operation = "stop" -> [s EXCEPT !.emergency_stop = 1]
    [] operation = "service_on" ->
         [s EXCEPT !.individual_service_mode = 1, !.emergency_mode = 0]
    [] operation = "service_off" -> [s EXCEPT !.individual_service_mode = 0]
    [] operation \in {"up", "down"} ->
         IF s.individual_service_mode = 0 THEN s
         ELSE IF s.status # "Closed" THEN s
         ELSE internal_step(s, operation)

\* One run of the button client, holding the mutex throughout.
Internal(operation) ==
  /\ events < MaxEvents
  /\ events' = events + 1
  /\ shm' = internal(shm, operation)
  /\ UNCHANGED <<sigvars, car, mainT, netT, open_elapsed, safety, dispvars>>

\* ------------------------------------------------------------- sensors

\* The door sensor: an obstruction appears while the doors move, or clears.
DoorSensor(v) ==
  /\ events < MaxEvents
  /\ events' = events + 1
  /\ shm.door_obstruction # v
  /\ v = 1 => shm.status \in {"Opening", "Closing"}
  /\ shm' = [shm EXCEPT !.door_obstruction = v]
  /\ UNCHANGED <<sigvars, car, mainT, netT, open_elapsed, safety, dispvars>>

\* The load sensor.
LoadSensor(v) ==
  /\ events < MaxEvents
  /\ events' = events + 1
  /\ shm.overload # v
  /\ shm' = [shm EXCEPT !.overload = v]
  /\ UNCHANGED <<sigvars, car, mainT, netT, open_elapsed, safety, dispvars>>

\* ----------------------------------- a peer that is not the dispatcher

InRange(lowest, highest) ==
  {f \in FloorLabels : is_valid_floor_range(f, lowest, highest)}

\* The peer writes FLOOR <f> for a floor of the car's range.
PeerFloor(f) ==
  /\ events < MaxEvents
  /\ events' = events + 1
  /\ car.connected # 0 /\ car.controller_fd = AbstractFd
  /\ sessions[AbstractFd].disp_open /\ Len(sessions[AbstractFd].d2c) < MaxBuf
  /\ sessions' = [sessions EXCEPT ![AbstractFd].d2c = Append(@, Msg("FLOOR", <<f>>))]
  /\ UNCHANGED <<sigvars, shm, car, mainT, netT, open_elapsed, safety, cars, calls>>

\* The peer closes the connection.
PeerClose ==
  /\ events < MaxEvents
  /\ events' = events + 1
  /\ car.connected # 0 /\ car.controller_fd = AbstractFd
  /\ sessions[AbstractFd].disp_open
  /\ sessions' = [sessions EXCEPT ![AbstractFd].disp_open = FALSE]
  /\ UNCHANGED <<sigvars, shm, car, mainT, netT, open_elapsed, safety, cars, calls>>

\* ------------------------------------------------------------ dispatcher

INT_MAX == 2147483647
MAX_CARS == 32

\* strncmp on two names (sequences of character codes): negative, 0, positive.
RECURSIVE strncmp(_, _)
strncmp(a, b) ==
  IF a = <<>> /\ b = <<>> THEN 0
  ELSE IF a = <<>> THEN -1
  ELSE IF b = <<>> THEN 1
  ELSE IF Head(a) # Head(b) THEN Head(a) - Head(b)
  ELSE strncmp(Tail(a), Tail(b))

abs(x) == IF x < 0 THEN -x ELSE x

get_queue_front(c) == IF c.queue # <<>> THEN Head(c.queue) ELSE EmptyStr

pop_queue(c) == IF c.queue # <<>> THEN [c EXCEPT !.queue = Tail(@)] ELSE c

get_car_position_numeric(c) ==
  LET current_info == parse_floor(c.current_floor)
      dest_info == parse_floor(c.destination_floor)
  IN  IF (c.status = "Closing" \/ c.status = "Between")
         /\ current_info.ok /\ dest_info.ok
         /\ current_info.numeric # dest_info.numeric
        THEN current_info.numeric
               + (IF dest_info.numeric > current_info.numeric THEN 1 ELSE -1)
        ELSE current_info.numeric

calculate_eta(c, target_floor) ==
  LET target_info == parse_floor(target_floor)
  IN  IF ~target_info.ok THEN INT_MAX
      ELSE abs(target_info.numeric - get_car_position_numeric(c)) + Len(c.queue)

\* The sweep direction add_to_queue works with, for a non-empty queue.
going_up(c) ==
  LET current_info == parse_floor(c.current_floor)
      dest_info == parse_floor(c.destination_floor)
      first_info == parse_floor(Head(c.queue))
  IN  IF current_info.ok /\ dest_info.ok /\ current_info.numeric # dest_info.numeric
        THEN dest_info.numeric > current_info.numeric
        ELSE IF first_info.ok /\ current_info.ok
               THEN first_info.numeric > current_info.numeric
               ELSE FALSE

\* The loop "insert among remaining floors" of the up sweep: the number of
\* nodes left before the new one, starting with i of them passed.
RECURSIVE scan_up(_, _, _, _, _)
scan_up(q, i, new_floor, car_pos, skipped_first) ==
  IF i >= Len(q) THEN i
  ELSE LET curr_info == parse_floor(q[i + 1])
       IN  IF ~curr_info.ok THEN i
           ELSE IF curr_info.numeric < car_pos THEN i
           ELSE IF skipped_first /\ new_floor > curr_info.numeric THEN i
           ELSE IF ~skipped_first /\ new_floor < curr_info.numeric THEN i
           ELSE scan_up(q, i + 1, new_floor, car_pos, skipped_first)

RECURSIVE scan_down(_, _, _, _, _)
scan_down(q, i, new_floor, car_pos, skipped_first) ==
  IF i >= Len(q) THEN i
  ELSE LET curr_info == parse_floor(q[i + 1])
       IN  IF ~curr_info.ok THEN i
           ELSE IF curr_info.numeric > car_pos THEN i
           ELSE IF skipped_first /\ new_floor < curr_info.numeric THEN i
           ELSE IF ~skipped_first /\ new_floor > curr_info.numeric THEN i
           ELSE scan_down(q, i + 1, new_floor, car_pos, skipped_first)

\* An insert_position of the up sweep without the search for a queued floor
\* above the new one.
insert_position_no_down_sweep(c, new_floor) ==
  LET q == c.queue
      car_pos == get_car_position_numeric(c)
      first_info == parse_floor(Head(q))
  IN  IF going_up(c)
        THEN IF new_floor > car_pos
               THEN LET skipped_first ==
                          /\ first_info.ok /\ first_info.numeric > car_pos
                          /\ ~(new_floor < first_info.numeric)
                    IN  scan_up(q, IF skipped_first THEN 1 ELSE 0,
                                new_floor, car_pos, skipped_first)
               ELSE Len(q)
        ELSE IF new_floor < car_pos
               THEN LET skipped_first ==
                          /\ first_info.ok /\ first_info.numeric < car_pos
                          /\ ~(new_floor > first_info.numeric)
                    IN  scan_down(q, IF skipped_first THEN 1 ELSE 0,
                                  new_floor, car_pos, skipped_first)
               ELSE Len(q)

\* Where add_to_queue links the new node into a non-empty queue: the number of
\* nodes in front of it.
insert_position(c, new_floor) ==
  LET q == c.queue
      car_pos == get_car_position_numeric(c)
      first_info == parse_floor(Head(q))
  IN  IF going_up(c)
        THEN IF new_floor > car_pos
               THEN LET is_down_sweep ==
                          \E k \in 1..Len(q) :
                             /\ parse_floor(q[k]).ok
                             /\ parse_floor(q[k]).numeric > car_pos
                             /\ new_floor < parse_floor(q[k]).numeric
                        skipped_first ==
                          /\ first_info.ok /\ first_info.numeric > car_pos
                          /\ ~(new_floor < first_info.numeric)
                    IN  IF is_down_sweep THEN Len(q)
                        ELSE scan_up(q, IF skipped_first THEN 1 ELSE 0,
                                     new_floor, car_pos, skipped_first)
               ELSE Len(q)
        ELSE IF new_floor < car_pos
               THEN LET skipped_first ==
                          /\ first_info.ok /\ first_info.numeric < car_pos
                          /\ ~(new_floor > first_info.numeric)
                    IN  scan_down(q, IF skipped_first THEN 1 ELSE 0,
                                  new_floor, car_pos, skipped_first)
               ELSE Len(q)

\* add_to_queue without the search for the floor among the queued ones.
add_to_queue_no_dedupe(c, floor) ==
  IF ~parse_floor(floor).ok THEN c
  ELSE IF c.queue = <<>> THEN [c EXCEPT !.queue = <<floor>>]
  ELSE LET i == insert_position(c, parse_floor(floor).numeric)
       IN  [c EXCEPT !.queue = SubSeq(@, 1, i) \o <<floor>> \o SubSeq(@, i + 1, Len(@))]

\* add_to_queue: the car record with the floor queued.
add_to_queue(c, floor) ==
  IF \E k \in 1..Len(c.queue) : c.queue[k] = floor THEN c
  ELSE IF ~parse_floor(floor).ok THEN c
  ELSE IF c.queue = <<>> THEN [c EXCEPT !.queue = <<floor>>]
  ELSE LET i == insert_position(c, parse_floor(floor).numeric)
       IN  [c EXCEPT !.queue = SubSeq(@, 1, i) \o <<floor>> \o SubSeq(@, i + 1, Len(@))]

\* is_direction_compatible: the car is not past the source in the passenger's
\* direction of travel.  find_best_car does not call it.
is_direction_compatible(c, source, destination) ==
  LET source_info == parse_floor(source)
      dest_info == parse_floor(destination)
  IN  IF ~source_info.ok \/ ~dest_info.ok THEN FALSE
      ELSE IF dest_info.numeric > source_info.numeric
        THEN get_car_position_numeric(c) <= source_info.numeric
        ELSE get_car_position_numeric(c) >= source_info.numeric

\* The loop of find_best_car without the test of the car's floor range.
RECURSIVE best_from_any_range(_, _, _, _, _)
best_from_any_range(i, best_car, best_eta, source, destination) ==
  IF i > Len(cars) THEN best_car
  ELSE LET c == cars[i]
           eta == calculate_eta(c, source)
       IN  IF c.connected = 0
             THEN best_from_any_range(i + 1, best_car, best_eta, source, destination)
           ELSE IF eta < best_eta
             THEN best_from_any_range(i + 1, i, eta, source, destination)
           ELSE IF eta = best_eta /\ best_car # 0
             THEN IF strncmp(c.name, cars[best_car].name) < 0
                    THEN best_from_any_range(i + 1, i, eta, source, destination)
                    ELSE best_from_any_range(i + 1, best_car, best_eta, source, destination)
           ELSE best_from_any_range(i + 1, best_car, best_eta, source, destination)

\* The loop of find_best_car keeping the first car found on a tie.
RECURSIVE best_from_first_wins(_, _, _, _, _)
best_from_first_wins(i, best_car, best_eta, source, destination) ==
  IF i > Len(cars) THEN best_car
  ELSE LET c == cars[i]
           eta == calculate_eta(c, source)
       IN  IF c.connected = 0
             THEN best_from_first_wins(i + 1, best_car, best_eta, source, destination)
           ELSE IF ~is_valid_floor_range(source, c.lowest, c.highest)
                   \/ ~is_valid_floor_range(destination, c.lowest, c.highest)
             THEN best_from_first_wins(i + 1, best_car, best_eta, source, destination)
           ELSE IF eta < best_eta
             THEN best_from_first_wins(i + 1, i, eta, source, destination)
           ELSE best_from_first_wins(i + 1, best_car, best_eta, source, destination)

\* The loop of find_best_car from record i on: the index of the best car
\* (0: none) given the best so far.
RECURSIVE best_from(_, _, _, _, _)
best_from(i, best_car, best_eta, source, destination) ==
  IF i > Len(cars) THEN best_car
  ELSE LET c == cars[i]
           eta == calculate_eta(c, source)
       IN  IF c.connected = 0
             THEN best_from(i + 1, best_car, best_eta, source, destination)
           ELSE IF ~is_valid_floor_range(source, c.lowest, c.highest)
                   \/ ~is_valid_floor_range(destination, c.lowest, c.highest)
             THEN best_from(i + 1, best_car, best_eta, source, destination)
           ELSE IF eta < best_eta
             THEN best_from(i + 1, i, eta, source, destination)
           ELSE IF eta = best_eta /\ best_car # 0
             THEN IF strncmp(c.name, cars[best_car].name) < 0
                    THEN best_from(i + 1, i, eta, source, destination)
                    ELSE best_from(i + 1, best_car, best_eta, source, destination)
           ELSE best_from(i + 1, best_car, best_eta, source, destination)

\* find_best_car: the index of the chosen record in cars, 0 for NULL.
find_best_car(source, destination) ==
  IF ~parse_floor(source).ok \/ ~parse_floor(destination).ok THEN 0
  ELSE best_from(1, 0, INT_MAX, source, destination)

\* write_message(fd, msg) by the dispatcher: lost unless both ends are open.
DispWrite(ss, fd, msg) ==
  IF fd \in DOMAIN ss
    THEN IF ss[fd].car_open /\ ss[fd].disp_open
           THEN [ss EXCEPT ![fd].d2c = Append(@, msg)]
           ELSE ss
    ELSE ss

DispCanWrite(fd) ==
  IF fd \in DOMAIN sessions
    THEN IF sessions[fd].car_open /\ sessions[fd].disp_open
           THEN Len(sessions[fd].d2c) < MaxBuf
           ELSE TRUE
    ELSE TRUE

\* close(client_fd) at the end of client_handler.
DispClose(ss, fd) ==
  [ss EXCEPT ![fd].disp_open = FALSE, ![fd].handler = "done", ![fd].c2d = <<>>]

Unavailable == Msg("UNAVAILABLE", <<>>)

\* handle_call_request: a call client's connection, from the CALL message to
\* the reply, under ctrl.mutex.
\* A handle_call_request that sends FLOOR after every successful call.
handle_call_request_always_tells(source, destination) ==
  /\ Len(calls) < MaxCalls
  /\ ctrl.pc = "accept" /\ shutdown_requested.controller = 0
  /\ LET i == IF source = EmptyStr \/ destination = EmptyStr
                THEN 0
                ELSE find_best_car(source, destination)
     IN  IF i # 0
           THEN LET c == cars[i]
                    c2 == add_to_queue(add_to_queue(c, source), destination)
                    new_front == get_queue_front(c2)
                IN  /\ DispCanWrite(c.fd)
                    /\ cars' = [cars EXCEPT ![i] = c2]
                    /\ sessions' = DispWrite(sessions, c.fd, Msg("FLOOR", <<new_front>>))
                    /\ calls' = Append(calls, [source |-> source, destination |-> destination,
                                               reply |-> Msg("CAR", <<c.name>>)])
           ELSE /\ calls' = Append(calls, [source |-> source, destination |-> destination,
                                           reply |-> Unavailable])
                /\ UNCHANGED <<cars, sessions>>
  /\ UNCHANGED <<sigvars, shm, car, mainT, netT, open_elapsed, safety, events>>

handle_call_request(source, destination) ==
  /\ Len(calls) < MaxCalls
  /\ ctrl.pc = "accept" /\ shutdown_requested.controller = 0
  /\ LET i == IF source = EmptyStr \/ destination = EmptyStr
                THEN 0
                ELSE find_best_car(source, destination)
     IN  IF i # 0
           THEN LET c == cars[i]
                    old_front_str == get_queue_front(c)
                    c2 == add_to_queue(add_to_queue(c, source), destination)
                    new_front == get_queue_front(c2)
                    tell == /\ new_front # EmptyStr
                            /\ (old_front_str = EmptyStr \/ old_front_str # new_front)
                IN  /\ tell => DispCanWrite(c.fd)
                    /\ cars' = [cars EXCEPT ![i] = c2]
                    /\ sessions' = IF tell
                                     THEN DispWrite(sessions, c.fd, Msg("FLOOR", <<new_front>>))
                                     ELSE sessions
                    /\ calls' = Append(calls, [source |-> source, destination |-> destination,
                                               reply |-> Msg("CAR", <<c.name>>)])
           ELSE /\ calls' = Append(calls, [source |-> source, destination |-> destination,
                                           reply |-> Unavailable])
                /\ UNCHANGED <<cars, sessions>>
  /\ UNCHANGED <<sigvars, shm, car, mainT, netT, open_elapsed, safety, events>>

\* A handle_car_message that removes the head without sending the next one.
handle_car_message_silent_pop(c, message) ==
  IF message.type = "STATUS"
    THEN IF message.args[1] # "" /\ message.args[2] # EmptyStr /\ message.args[3] # EmptyStr
           THEN LET c1 == [c EXCEPT !.status = message.args[1],
                                    !.current_floor = message.args[2],
                                    !.destination_floor = message.args[3]]
                    front == get_queue_front(c1)
                IN  IF front # EmptyStr /\ c1.status = "Opening" /\ c1.current_floor = front
                      THEN [rec |-> pop_queue(c1), out |-> Unavailable]
                      ELSE [rec |-> c1, out |-> Unavailable]
           ELSE [rec |-> c, out |-> Unavailable]
  ELSE IF message.type = "EMERGENCY" \/ message.type = "INDIVIDUAL SERVICE"
    THEN [rec |-> [c EXCEPT !.connected = 0, !.queue = <<>>], out |-> Unavailable]
  ELSE [rec |-> c, out |-> Unavailable]

\* handle_car_message on record c: the record afterwards, and the FLOOR
\* message written to c.fd (Unavailable: none).
handle_car_message(c, message) ==
  IF message.type = "STATUS"
    THEN IF message.args[1] # "" /\ message.args[2] # EmptyStr /\ message.args[3] # EmptyStr
           THEN LET c1 == [c EXCEPT !.status = message.args[1],
                                    !.current_floor = message.args[2],
                                    !.destination_floor = message.args[3]]
                    front == get_queue_front(c1)
                IN  IF front # EmptyStr /\ c1.status = "Opening" /\ c1.current_floor = front
                      THEN LET c2 == pop_queue(c1)
                           IN  [rec |-> c2,
                                out |-> IF get_queue_front(c2) # EmptyStr
                                          THEN Msg("FLOOR", <<get_queue_front(c2)>>)
                                          ELSE Unavailable]
                      ELSE [rec |-> c1, out |-> Unavailable]
           ELSE [rec |-> c, out |-> Unavailable]
  ELSE IF message.type = "EMERGENCY" \/ message.type = "INDIVIDUAL SERVICE"
    THEN [rec |-> [c EXCEPT !.connected = 0, !.queue = <<>>], out |-> Unavailable]
  ELSE [rec |-> c, out |-> Unavailable]

\* A lookup that never finds the name.
FindCar_never_finds(name) == 0

\* The record a registration looks up: the first with that name, 0 if none.
FindCar(name) ==
  IF \E i \in 1..Len(cars) : cars[i].name = name
    THEN CHOOSE i \in 1..Len(cars) :
           /\ cars[i].name = name
           /\ \A j \in 1..(i - 1) : cars[j].name # name
    ELSE 0

Registered(name, lowest, highest, fd) ==
  [name |-> name, lowest |-> lowest, highest |-> highest,
   current_floor |-> lowest, destination_floor |-> lowest, status |-> "Closed",
   connected |-> 1, fd |-> fd, queue |-> <<>>]

\* client_handler, the first message: a car registers.
HandlerAccept(fd) ==
  /\ sessions[fd].handler = "accept"
  /\ sessions[fd].c2d # <<>> \/ ~sessions[fd].car_open
  /\ IF sessions[fd].c2d = <<>>
       THEN sessions' = DispClose(sessions, fd) /\ UNCHANGED cars
       ELSE LET message == Head(sessions[fd].c2d)
                found == FindCar(message.args[1])
                idx == IF found # 0 THEN found
                       ELSE IF Len(cars) < MAX_CARS THEN Len(cars) + 1
                       ELSE 0
                rec == Registered(message.args[1], message.args[2], message.args[3], fd)
            IN  IF message.type = "CAR" /\ idx # 0
                  THEN /\ cars' = IF found # 0 THEN [cars EXCEPT ![idx] = rec]
                                  ELSE Append(cars, rec)
                       /\ sessions' = [sessions EXCEPT ![fd].c2d = Tail(@),
                                                       ![fd].handler = "car",
                                                       ![fd].car = idx]
                  ELSE sessions' = DispClose(sessions, fd) /\ UNCHANGED cars
  /\ UNCHANGED <<sigvars, shm, car, mainT, netT, open_elapsed, safety, calls, events>>

\* client_handler, the loop condition: the record is still connected.
HandlerCheck(fd) ==
  /\ sessions[fd].handler = "car"
  /\ IF ctrl.running # 0 /\ shutdown_requested.controller = 0
          /\ cars[sessions[fd].car].connected # 0
       THEN sessions' = [sessions EXCEPT ![fd].handler = "read"]
       ELSE sessions' = DispClose(sessions, fd)
  /\ UNCHANGED <<sigvars, shm, car, mainT, netT, open_elapsed, safety, cars, calls, events>>

\* client_handler, read_message and handle_car_message.
HandlerRead(fd) ==
  /\ sessions[fd].handler = "read"
  /\ sessions[fd].c2d # <<>> \/ ~sessions[fd].car_open
  /\ IF sessions[fd].c2d = <<>>
       THEN sessions' = DispClose(sessions, fd) /\ UNCHANGED cars
       ELSE LET idx == sessions[fd].car
                r == handle_car_message(cars[idx], Head(sessions[fd].c2d))
                ss == [sessions EXCEPT ![fd].c2d = Tail(@), ![fd].handler = "car"]
            IN  /\ r.out # Unavailable => DispCanWrite(r.rec.fd)
                /\ cars' = [cars EXCEPT ![idx] = r.rec]
                /\ sessions' = IF r.out # Unavailable
                                 THEN DispWrite(ss, r.rec.fd, r.out)
                                 ELSE ss
  /\ UNCHANGED <<sigvars, shm, car, mainT, netT, open_elapsed, safety, calls, events>>

\* The descriptors of the dispatcher's connections.
Fds == DOMAIN sessions \ {AbstractFd}

\* What a call client may send: the building's floors, "0" and "".
CallLabels == FloorLabels \cup {Lbl(FALSE, 0), EmptyStr}

Dispatcher ==
  \/ \E fd \in Fds : HandlerAccept(fd)
  \/ \E fd \in Fds : HandlerCheck(fd)
  \/ \E fd \in Fds : HandlerRead(fd)
  \/ \E source, destination \in CallLabels : handle_call_request(source, destination)

\* ---------------------------------------------------- the car on its own

\* The ranges a modelled car is started with: one that spans the basement
\* and the regular floors, one that does not.
CarRanges == {<<F(-MaxBasement), F(2)>>, <<F(1), F(MaxFloor)>>}

CarName == <<65>>

CarInit(r) ==
  /\ car = [name |-> CarName, lowest |-> r[1], highest |-> r[2], connected |-> 0,
            controller_fd |-> -1, last_sent_status |-> NoStatus, running |-> 1]
  /\ shutdown_requested = [car |-> 0, controller |-> 0]
  /\ shm = create_shared_memory(r[1])
  /\ mainT = [pc |-> "top", service_mode |-> 0]
  /\ netT = [pc |-> "snapshot", should_connect |-> FALSE, service_mode |-> 0]
  /\ open_elapsed = 0
  /\ safety = [alive |-> FALSE, ran |-> FALSE]
  /\ events = 0

\* The dispatcher's main thread is in its accept loop.
Listening == [running |-> 1, pc |-> "accept"]

DispInit ==
  /\ ctrl = Listening
  /\ cars = <<>>
  /\ sessions = [i \in {AbstractFd} |-> IdleSession]
  /\ calls = <<>>

InitCar ==
  /\ \E r \in CarRanges : CarInit(r)
  /\ DispInit

NetThread ==
  \/ NetSnapshot
  \/ \E fd \in {-1, AbstractFd} : NetConnect(fd)
  \/ NetStatus
  \/ NetRecv
  \/ NetHeartbeat

SafetyMonitor ==
  \/ SafetyCycle
  \/ SafetyStart
  \/ SafetyStop

Environment ==
  \/ \E op \in Operations : Internal(op)
  \/ \E v \in {0, 1} : DoorSensor(v)
  \/ \E v \in {0, 1} : LoadSensor(v)
  \/ \E f \in InRange(car.lowest, car.highest) : PeerFloor(f)
  \/ PeerClose

NextCar ==
  \/ CarMain
  \/ Tick
  \/ NetThread
  \/ SafetyMonitor
  \/ Environment

SpecCar == InitCar /\ [][NextCar]_vars

\* ------------------------------------------------- the dispatcher's choice

CarNames == {<<65>>, <<66>>}

\* What the cars of SpecChoose have reported: at a floor with the doors shut,
\* arriving, or under way to either end of the building.
StatusMessages ==
  {Msg("STATUS", <<st, cur, dst>>) :
     st \in {"Closed", "Opening", "Between"},
     cur \in FloorLabels,
     dst \in {F(-MaxBasement), F(MaxFloor)}}

CarMessages == StatusMessages \cup {Msg("EMERGENCY", <<>>)}

\* The record of a car that registered on fd, was given the floors of pre by
\* earlier calls and then sent message (NoStatus: nothing yet).
RecordAfter(name, r, fd, pre, message) ==
  LET rec == Registered(name, r[1], r[2], fd)
      queued == IF pre = <<>> THEN rec
                ELSE add_to_queue(add_to_queue(rec, pre[1]), pre[2])
  IN  IF message = NoStatus THEN queued
      ELSE handle_car_message(queued, message).rec

\* The range each car of SpecChoose is started with: the first name spans
\* the basement and the regular floors, the other does not.
RangeOf(name) ==
  IF name = <<65>> THEN <<F(-MaxBasement), F(2)>> ELSE <<F(1), F(MaxFloor)>>

CarRecords(name, fd) ==
  {RecordAfter(name, RangeOf(name), fd, pre, message) :
     pre \in {<<>>, <<F(1), F(2)>>}, message \in {NoStatus} \cup CarMessages}

\* The connections of n registered cars, each handler waiting for a message.
HandlerSessions(n) ==
  [fd \in 0..n |-> IF fd = AbstractFd THEN IdleSession
                   ELSE [Session("read", <<>>) EXCEPT !.car = fd]]

\* Two cars registered in either order, in any of the states above.
InitChoose ==
  /\ CarInit(<<F(1), F(MaxFloor)>>)
  /\ ctrl = Listening
  /\ calls = <<>>
  /\ sessions = HandlerSessions(2)
  /\ \E n1, n2 \in CarNames :
       /\ n1 # n2
       /\ \E c1 \in CarRecords(n1, 1), c2 \in CarRecords(n2, 2) : cars = <<c1, c2>>

NextChoose ==
  \E source, destination \in CallLabels : handle_call_request(source, destination)

SpecChoose == InitChoose /\ [][NextChoose]_vars

\* ------------------------------------------- the car and the dispatcher

\* What connect_to_controller may return: -1, or the next connection of the
\* dispatcher.
NewFds ==
  {-1} \cup (IF Cardinality(Fds) < MaxSessions
                 /\ ctrl.pc = "accept" /\ shutdown_requested.controller = 0
               THEN {Cardinality(Fds) + 1} ELSE {})

NetThreadSys ==
  \/ NetSnapshot
  \/ \E fd \in NewFds : NetConnect(fd)
  \/ NetStatus
  \/ NetRecv
  \/ NetHeartbeat

\* The button operations that end or prevent the car's session.
SessionOperations == {"stop", "service_on", "service_off"}

NextSys ==
  \/ CarMain
  \/ Tick
  \/ NetThreadSys
  \/ SafetyMonitor
  \/ Dispatcher
  \/ \E operation \in SessionOperations : Internal(operation)

InitSys ==
  /\ CarInit(<<F(1), F(MaxFloor)>>)
  /\ DispInit

SpecSys == InitSys /\ [][NextSys]_vars

\* ----------------------- the car, the dispatcher and a running monitor

\* No button client and no sensor acts, and the monitor, once started, never
\* stops.  Every thread and process keeps being scheduled.
NextServe ==
  \/ CarMain
  \/ Tick
  \/ NetThreadSys
  \/ SafetyStart
  \/ SafetyCycle
  \/ Dispatcher

FairServe ==
  /\ WF_vars(CarMain)
  /\ WF_vars(Tick)
  /\ WF_vars(NetThreadSys)
  /\ WF_vars(SafetyStart)
  /\ WF_vars(SafetyCycle)
  /\ \A fd \in 1..MaxSessions :
       WF_vars(fd \in Fds /\ (HandlerAccept(fd) \/ HandlerCheck(fd) \/ HandlerRead(fd)))

SpecServe == InitCar /\ [][NextServe]_vars /\ FairServe

Answered(k) == k <= Len(calls) /\ calls[k].reply.type = "CAR"

DoorsOpenAt(floor) == shm.current_floor = floor /\ shm.status \in {"Opening", "Open"}

AtSource(k) == k <= Len(calls) /\ DoorsOpenAt(calls[k].source)

AtDestination(k) == k <= Len(calls) /\ DoorsOpenAt(calls[k].destination)

Dequeued(k) ==
  /\ k <= Len(calls)
  /\ \A i \in 1..Len(cars) :
       \A j \in 1..Len(cars[i].queue) :
         cars[i].queue[j] \notin {calls[k].source, calls[k].destination}

\* C1: every CALL src dst answered CAR name is eventually served: the car
\* opens its doors at src, afterwards at dst, and in the end neither floor is
\* left in the car's queue.
C1_CallServed ==
  \A k \in 1..MaxCalls :
    [](Answered(k) => <>(AtSource(k) /\ <>(AtDestination(k) /\ <>Dequeued(k))))

\* ------------------------- the car with a monitor that need not be running

\* The monitor may start, stop or never run; the car's threads keep being
\* scheduled.
NextAbsent ==
  \/ CarMain
  \/ Tick
  \/ NetThread
  \/ SafetyMonitor
  \/ \E f \in InRange(car.lowest, car.highest) : PeerFloor(f)

SpecAbsent ==
  InitCar /\ [][NextAbsent]_vars /\ WF_vars(CarMain) /\ WF_vars(Tick) /\ WF_vars(NetThread)

\* C3: whenever the monitor is not running, then unless it runs again the
\* network thread takes safety_system to 3, sets emergency_mode and leaves the
\* car disconnected.
C3_AbsentMonitorDetected ==
  [](~safety.alive =>
       <>(\/ safety.alive
          \/ (shm.safety_system = 3 /\ shm.emergency_mode = 1 /\ car.connected = 0)))

\* ------------------- the car with a monitor cycle before every heartbeat

\* The monitor, once started, never stops, and it runs a cycle between any
\* two heartbeats of the network thread.
HeartbeatAfterMonitor == safety.alive /\ safety.ran /\ NetHeartbeat

NextHeartbeat ==
  \/ CarMain
  \/ Tick
  \/ NetSnapshot
  \/ \E fd \in {-1, AbstractFd} : NetConnect(fd)
  \/ NetStatus
  \/ NetRecv
  \/ HeartbeatAfterMonitor
  \/ SafetyStart
  \/ SafetyCycle
  \/ \E f \in InRange(car.lowest, car.highest) : PeerFloor(f)

SpecHeartbeat == InitCar /\ [][NextHeartbeat]_vars

\* C2: with a monitor cycle between any two heartbeats, safety_system never
\* reaches 3, the value at which the network thread sets emergency_mode.
C2_HeartbeatNeverSaturates == shm.safety_system < 3

\* C9: no record is selectable for a CALL once its session has ended: a
\* record whose handler thread has finished is not returned by find_best_car.
C9_EndedSessionNotSelected ==
  \A source, destination \in FloorLabels :
    LET i == find_best_car(source, destination)
    IN  i # 0 => sessions[cars[i].fd].handler # "done"

\* ------------------------------------------------ claims on the car alone

C5_NoMotionInEmergency ==
  [][(shm.emergency_mode = 1 /\ shm'.emergency_mode = 1) =>
       /\ shm'.current_floor = shm.current_floor
       /\ (shm'.status = "Between" => shm.status = "Between")]_vars

\* C6: door_obstruction = 1 only while the doors are Opening or Closing.
C6_ObstructionOnlyWhileDoorsMove ==
  shm.door_obstruction = 1 => shm.status \in {"Opening", "Closing"}

\* C7: a monitor cycle that finds door_obstruction = 1 and status Closing
\* leaves status Opening.
C7_ClosingReversed ==
  [][(SafetyCycle /\ shm.door_obstruction = 1 /\ shm.status = "Closing") =>
       shm'.status = "Opening"]_vars

\* The doors, obstructed, were reversed while the main loop waits in its
\* Closing branch.
C7_Witness ==
  /\ shm.door_obstruction = 1
  /\ shm.status = "Opening"
  /\ mainT.pc = "closing_delay"
  /\ safety.ran

\* ------------------------------------------- claims on the dispatcher's choice

Num(floor) == IF floor.bas THEN -(floor.num) ELSE floor.num

Within(floor, c) == Num(c.lowest) <= Num(floor) /\ Num(floor) <= Num(c.highest)

\* C8: a CALL answered CAR name has its source and its destination within
\* the range the car of that name registered with.
C8_AnsweredWithinRange ==
  \A k \in 1..Len(calls) :
    calls[k].reply.type = "CAR" =>
      LET c == cars[FindCar(calls[k].reply.args[1])]
      IN  Within(calls[k].source, c) /\ Within(calls[k].destination, c)

\* A call from the basement answered while a car that does not serve the
\* basement is connected.
C8_Witness ==
  /\ calls # <<>>
  /\ calls[1].reply.type = "CAR"
  /\ calls[1].source = F(-MaxBasement)
  /\ \E i \in 1..Len(cars) : cars[i].connected # 0 /\ cars[i].lowest = F(1)

Candidates(source, destination) ==
  {i \in 1..Len(cars) :
     cars[i].connected # 0 /\ Within(source, cars[i]) /\ Within(destination, cars[i])}

EffectivePosition(c) ==
  IF c.status \in {"Closing", "Between"} /\ c.current_floor # c.destination_floor
    THEN IF Num(c.destination_floor) > Num(c.current_floor)
           THEN Num(c.current_floor) + 1
           ELSE Num(c.current_floor) - 1
    ELSE Num(c.current_floor)

Eta(c, source) ==
  LET d == Num(source) - EffectivePosition(c)
  IN  (IF d < 0 THEN -d ELSE d) + Len(c.queue)

\* a before b in the lexicographic order of names.
NameBefore(a, b) ==
  \E n \in 1..(Len(b)) :
    /\ \A m \in 1..(n - 1) : m <= Len(a) /\ a[m] = b[m]
    /\ (n > Len(a) \/ a[n] < b[n])

\* C10: the car chosen for a CALL is a candidate of minimum ETA, and among
\* the candidates of minimum ETA the one whose name comes first.
C10_MinEtaThenName ==
  \A source, destination \in FloorLabels :
    \A best \in {find_best_car(source, destination)} :
      \A cand \in {Candidates(source, destination)} :
        IF cand = {} THEN best = 0
        ELSE /\ best \in cand
             /\ \A j \in cand \ {best} :
                  \/ Eta(cars[best], source) < Eta(cars[j], source)
                  \/ /\ Eta(cars[best], source) = Eta(cars[j], source)
                     /\ NameBefore(cars[best].name, cars[j].name)

\* Two candidates tie on the ETA and the one that registered second is chosen.
C10_Witness ==
  \E source, destination \in FloorLabels :
    /\ Candidates(source, destination) = {1, 2}
    /\ Eta(cars[1], source) = Eta(cars[2], source)
    /\ find_best_car(source, destination) = 2

\* --------------------------- the dispatcher and a car seen from its socket

\* What a car writes on its session after the CAR message: it arrives at a
\* floor or is under way to either end of the building, or it leaves.
SessionMessages ==
  {Msg("STATUS", <<st, cur, dst>>) :
     st \in {"Opening", "Between"},
     cur \in FloorLabels,
     dst \in {F(-MaxBasement), F(MaxFloor)}}
  \cup {Msg("EMERGENCY", <<>>), Msg("INDIVIDUAL SERVICE", <<>>)}

\* The car writes a message on its session, once the handler has read the
\* one before.
CarSends(fd, message) ==
  /\ events < MaxEvents
  /\ events' = events + 1
  /\ sessions[fd].car_open
  /\ sessions[fd].c2d = <<>>
  /\ sessions' = CarWrite(sessions, fd, message)
  /\ UNCHANGED <<sigvars, shm, car, mainT, netT, open_elapsed, safety, cars, calls>>

\* The car reads what the dispatcher wrote.
CarReads(fd) ==
  /\ sessions[fd].car_open
  /\ sessions[fd].d2c # <<>>
  /\ sessions' = [sessions EXCEPT ![fd].d2c = Tail(@)]
  /\ UNCHANGED <<sigvars, shm, car, mainT, netT, open_elapsed, safety, cars, calls, events>>

\* The car closes its session.
CarHangsUp(fd) ==
  /\ sessions[fd].car_open
  /\ sessions' = CarClose(sessions, fd)
  /\ UNCHANGED <<sigvars, shm, car, mainT, netT, open_elapsed, safety, cars, calls, events>>

\* The car, with no session open, connects and writes its CAR message.
CarConnects ==
  /\ events < MaxEvents
  /\ events' = events + 1
  /\ \A fd \in Fds : ~sessions[fd].car_open
  /\ Cardinality(Fds) < MaxSessions
  /\ ctrl.pc = "accept" /\ shutdown_requested.controller = 0
  /\ sessions' = Connected(sessions, Cardinality(Fds) + 1)
  /\ UNCHANGED <<sigvars, shm, car, mainT, netT, open_elapsed, safety, cars, calls>>

\* The queues earlier calls left: none, a call from 1 to 2, a call from 2 to
\* the lowest basement.
QueuePrefills == {<<>>, <<F(1), F(2)>>, <<F(2), F(-MaxBasement)>>}

\* One car serving the whole building is registered; earlier calls are queued.
InitQueue ==
  /\ CarInit(<<F(-MaxBasement), F(MaxFloor)>>)
  /\ ctrl = Listening
  /\ calls = <<>>
  /\ sessions = HandlerSessions(1)
  /\ \E pre \in QueuePrefills :
       cars = <<RecordAfter(CarName, <<F(-MaxBasement), F(MaxFloor)>>, 1, pre, NoStatus)>>

\* The calls are for floors of the building.
NextQueue ==
  \/ \E fd \in Fds, message \in SessionMessages : CarSends(fd, message)
  \/ \E fd \in Fds : CarReads(fd)
  \/ \E fd \in Fds : CarHangsUp(fd)
  \/ CarConnects
  \/ \E fd \in Fds : HandlerAccept(fd)
  \/ \E fd \in Fds : HandlerCheck(fd)
  \/ \E fd \in Fds : HandlerRead(fd)
  \/ \E source, destination \in FloorLabels : handle_call_request(source, destination)

SpecQueue == InitQueue /\ [][NextQueue]_vars

\* C11: no car's queue holds the same floor label twice.
C11_NoDuplicateFloors ==
  \A i \in 1..Len(cars) :
    \A j, k \in 1..Len(cars[i].queue) :
      j # k => cars[i].queue[j] # cars[i].queue[k]

\* A call from 2 to the lowest basement was answered by a car that had 1 and
\* 2 queued: floor 2 is queued once.
C11_Witness ==
  /\ calls # <<>>
  /\ calls[1].reply.type = "CAR"
  /\ calls[1].source = F(2)
  /\ calls[1].destination = F(-MaxBasement)
  /\ cars[1].queue = <<F(1), F(2), F(-MaxBasement)>>

\* ------------------------------------- further claims on the car alone

\* C12: current_floor and destination_floor are valid labels within the
\* car's range [lowest, highest] in every reachable state.
C12_FloorsWithinRange ==
  /\ shm.current_floor \in InRange(car.lowest, car.highest)
  /\ shm.destination_floor \in InRange(car.lowest, car.highest)

\* C13: every Between step leaves current_floor a valid floor label (never
\* the missing floor 0), also on the way between a basement floor and a
\* regular floor.
C13_NoStepOntoZero ==
  [][MainBetweenDone => parse_floor(shm'.current_floor).ok]_vars

\* ------------------------------ further claims on the dispatcher's choice

\* C14: when some car that can serve the call is direction-compatible with
\* it, the car chosen is direction-compatible.
C14_CompatibleCarPreferred ==
  \A source, destination \in FloorLabels :
    \A best \in {find_best_car(source, destination)} :
      (\E j \in Candidates(source, destination) :
          is_direction_compatible(cars[j], source, destination))
        => is_direction_compatible(cars[best], source, destination)

\* ------------------------------------------- calls with any text for a floor

\* What a client may put in a CALL message: the labels above and "+1", a
\* text that is not a floor label.
RawLabels == CallLabels \cup {Plus(1)}

NextCall ==
  \E source, destination \in RawLabels : handle_call_request(source, destination)

SpecCall == InitChoose /\ [][NextCall]_vars

\* C15: a CALL whose source or destination is not a valid floor label, or
\* that no connected car covers, is answered UNAVAILABLE, and no car record
\* changes and nothing is written to a car.
C15_InvalidCallUnavailable ==
  [][\A source, destination \in RawLabels :
       (/\ handle_call_request(source, destination)
        /\ \/ source \notin FloorLabels
           \/ destination \notin FloorLabels
           \/ Candidates(source, destination) = {})
         => /\ calls'[Len(calls')].reply = Unavailable
            /\ cars' = cars
            /\ sessions' = sessions]_vars

\* ------------------------------------------------ the car in service mode

\* The highest regular floor that has a label.
TopFloor == 999

\* The ranges of SpecCar, and one that ends at the highest floor there is.
ServiceRanges == CarRanges \cup {<<F(TopFloor - 1), F(TopFloor)>>}

\* The car has started and internal service_on has run.
InitService ==
  /\ \E r \in ServiceRanges :
       /\ car = [name |-> CarName, lowest |-> r[1], highest |-> r[2], connected |-> 0,
                 controller_fd |-> -1, last_sent_status |-> NoStatus, running |-> 1]
       /\ shm = internal(create_shared_memory(r[1]), "service_on")
  /\ shutdown_requested = [car |-> 0, controller |-> 0]
  /\ mainT = [pc |-> "top", service_mode |-> 0]
  /\ netT = [pc |-> "snapshot", should_connect |-> FALSE, service_mode |-> 0]
  /\ open_elapsed = 0
  /\ safety = [alive |-> FALSE, ran |-> FALSE]
  /\ events = 0
  /\ DispInit

SpecService == InitService /\ [][NextCar]_vars

\* C16: a run of internal up or down with individual_service_mode not 1 or
\* status not Closed leaves every field of the shared record unchanged.
C16_UpDownRejected ==
  [][\A operation \in {"up", "down"} :
       (/\ Internal(operation)
        /\ (shm.individual_service_mode # 1 \/ shm.status # "Closed"))
         => shm' = shm]_vars

\* The car is under way in service mode after an accepted up or down, and
\* the button client has run again since.
C16_Witness ==
  /\ events = MaxEvents
  /\ shm.individual_service_mode = 1
  /\ shm.status = "Between"
  /\ shm.current_floor = car.lowest
  /\ shm.open_button = 0 /\ shm.close_button = 0 /\ shm.emergency_stop = 0
  /\ shm.overload = 0
  /\ mainT.pc = "top"

\* The label of the floor next to floor in the direction of the operation,
\* there being no floor 0.
Adjacent(floor, operation) ==
  LET direction == IF operation = "up" THEN 1 ELSE -1
      n == Num(floor) + direction
  IN  F(IF n = 0 THEN direction ELSE n)

\* C17: an accepted internal up or down sets destination_floor to the floor
\* adjacent to current_floor in that direction, skipping floor 0, and changes
\* nothing else.
C17_UpDownAdjacent ==
  [][\A operation \in {"up", "down"} :
       (/\ Internal(operation)
        /\ shm.individual_service_mode = 1 /\ shm.status = "Closed"
        /\ parse_floor(shm.current_floor).ok)
         => shm' = [shm EXCEPT
                      !.destination_floor = Adjacent(shm.current_floor, operation)]]_vars

\* ------------------------------------------------------- SIGINT and shutdown

\* sigint_handler in the car process.
CarSigint ==
  /\ shutdown_requested.car = 0
  /\ mainT.pc # "exited"
  /\ shutdown_requested' = [shutdown_requested EXCEPT !.car = 1]
  /\ UNCHANGED <<shm, car, mainT, netT, open_elapsed, safety, dispvars, events, ctrl>>

\* The main loop's condition fails: car.running = 0, and pthread_join next.
MainShutdown ==
  /\ mainT.pc = "top"
  /\ ~(car.running # 0 /\ shutdown_requested.car = 0)
  /\ car' = [car EXCEPT !.running = 0]
  /\ mainT' = [mainT EXCEPT !.pc = "join"]
  /\ UNCHANGED <<sigvars, shm, netT, open_elapsed, safety, dispvars, events>>

\* The network thread's loop condition fails and the thread returns.
NetExit ==
  /\ netT.pc = "snapshot"
  /\ ~(car.running # 0 /\ shutdown_requested.car = 0)
  /\ netT' = [netT EXCEPT !.pc = "exited"]
  /\ UNCHANGED <<sigvars, shm, car, mainT, open_elapsed, safety, dispvars, events>>

\* pthread_join returns; the session is closed, the shared memory unlinked and
\* main returns.
MainJoin ==
  /\ mainT.pc = "join"
  /\ netT.pc = "exited"
  /\ sessions' = IF car.connected # 0 /\ car.controller_fd >= 0
                   THEN CarClose(sessions, car.controller_fd)
                   ELSE sessions
  /\ mainT' = [mainT EXCEPT !.pc = "exited"]
  /\ UNCHANGED <<sigvars, shm, car, netT, open_elapsed, safety, cars, calls, events>>

\* sigint_handler in the dispatcher.  The handler is installed with
\* SA_RESTART: a thread blocked in accept() or read() goes on waiting.
DispSigint ==
  /\ shutdown_requested.controller = 0
  /\ ctrl.pc = "accept"
  /\ shutdown_requested' = [shutdown_requested EXCEPT !.controller = 1]
  /\ UNCHANGED <<shm, car, mainT, netT, open_elapsed, safety, dispvars, events, ctrl>>

\* A client connects after SIGINT: accept() returns, the loop condition fails
\* and cleanup_and_exit ends the process with all its connections.
DispAcceptExit ==
  /\ ctrl.pc = "accept"
  /\ ~(ctrl.running # 0 /\ shutdown_requested.controller = 0)
  /\ ctrl' = [running |-> 0, pc |-> "exited"]
  /\ sessions' = [fd \in DOMAIN sessions |->
                    IF fd = AbstractFd THEN sessions[fd]
                    ELSE [sessions[fd] EXCEPT !.disp_open = FALSE,
                                              !.handler = "done", !.c2d = <<>>]]
  /\ UNCHANGED <<shm, car, mainT, netT, open_elapsed, safety, cars, calls, events,
                 shutdown_requested>>

\* The car, the dispatcher and a running monitor; SIGINT may reach either
\* process.  DispAcceptExit is a step of the environment (a new connection).
NextShutdown ==
  \/ CarMain
  \/ Tick
  \/ NetThreadSys
  \/ SafetyStart
  \/ SafetyCycle
  \/ Dispatcher
  \/ CarSigint
  \/ MainShutdown
  \/ NetExit
  \/ MainJoin
  \/ DispSigint
  \/ DispAcceptExit

\* Every thread of the car and of the dispatcher keeps being scheduled.
FairShutdown ==
  /\ WF_vars(CarMain)
  /\ WF_vars(Tick)
  /\ WF_vars(NetThreadSys)
  /\ WF_vars(MainShutdown)
  /\ WF_vars(NetExit)
  /\ WF_vars(MainJoin)
  /\ \A fd \in 1..MaxSessions :
       WF_vars(fd \in Fds /\ (HandlerAccept(fd) \/ HandlerCheck(fd) \/ HandlerRead(fd)))

SpecShutdown == InitSys /\ [][NextShutdown]_vars /\ FairShutdown

\* The car process has ended: the network thread was joined and the shared
\* memory unlinked.
CarTerminated == mainT.pc = "exited" /\ netT.pc = "exited"

\* C18: after SIGINT the process it was delivered to terminates: the car
\* joins its network thread and unlinks the shared memory, the dispatcher's
\* main thread leaves its accept loop and exits.
C18_SigintTerminates ==
  /\ [](shutdown_requested.car = 1 => <>CarTerminated)
  /\ [](shutdown_requested.controller = 1 => <>(ctrl.pc = "exited"))

\* ------------------------------------ further claims on the car's branches

\* A floor label: "B1".."B99" or "1".."999".
ValidLabel(floor) ==
  /\ ~floor.plus
  /\ IF floor.bas THEN floor.num \in 1..99 ELSE floor.num \in 1..TopFloor

\* floor is a label within the car's range [lowest, highest].
InCarRange(floor) ==
  /\ ValidLabel(floor)
  /\ Num(car.lowest) <= Num(floor) /\ Num(floor) <= Num(car.highest)

\* C19: the status becomes Between only from Closed, with current_floor
\* different from destination_floor, emergency_mode = 0 and destination_floor
\* within [lowest, highest]; and a pass of the main loop that finds, in status
\* Closed, a destination_floor outside the range sets it to current_floor and
\* leaves the status Closed.
C19_BetweenOnlyFromClosed ==
  [][/\ (shm'.status = "Between" /\ shm.status # "Between")
          => /\ shm.status = "Closed"
             /\ shm.current_floor # shm.destination_floor
             /\ shm.emergency_mode = 0
             /\ InCarRange(shm.destination_floor)
     /\ (/\ MainLoop
         /\ shm.status = "Closed" /\ shm.open_button = 0
         /\ ~InCarRange(shm.destination_floor))
          => /\ shm'.destination_floor = shm.current_floor
             /\ shm'.status = "Closed"]_vars

\* C20: a Between step that brings current_floor to destination_floor leaves
\* the status Closed when individual_service_mode is 1 at that moment and
\* Opening otherwise.
C20_ArrivalByCurrentServiceMode ==
  [][(/\ MainBetweenDone
      /\ shm.status = "Between"
      /\ shm'.current_floor = shm'.destination_floor)
       => shm'.status = IF shm.individual_service_mode = 1 THEN "Closed" ELSE "Opening"]_vars

\* C21, as amended: the status that follows Between is Opening, or Closed
\* when the Between step is taken with the service mode the main loop read
\* before the travel delay set.
C21_BetweenLeftToOpeningOrClosed ==
  [][(shm.status = "Between" /\ shm'.status # "Between")
       => \/ shm'.status = "Opening"
          \/ (shm'.status = "Closed" /\ MainBetweenDone /\ mainT.service_mode # 0)]_vars

\* C21, as stated: the status that follows Between is Opening.
C21_BetweenLeftToOpening ==
  [][(shm.status = "Between" /\ shm'.status # "Between")
       => shm'.status = "Opening"]_vars

\* The car has travelled in service mode and stopped with its doors Closed.
C21_Witness ==
  /\ shm.status = "Closed"
  /\ shm.current_floor # car.lowest
  /\ shm.current_floor = shm.destination_floor
  /\ mainT.service_mode = 1
  /\ shm.individual_service_mode = 1

\* C22: a pass of the main loop that finds open_button = 1 in status Open (and
\* no close request) restarts the dwell, so that the doors stay Open for a
\* full delay after the press.
C22_OpenButtonExtendsDwell ==
  [][(/\ MainLoop
      /\ shm.status = "Open"
      /\ shm.open_button # 0
      /\ shm.close_button = 0) => open_elapsed' = 0]_vars

\* The shared record with both button flags at 0.
Released(s) == [s EXCEPT !.open_button = 0, !.close_button = 0]

\* C23: every pass of the main loop leaves open_button and close_button at
\* 0; when each pending press finds a status in which it has no effect
\* (open_button outside Closed and Closing, close_button outside Open), the
\* pass writes exactly what it would have written had no button been pressed.
C23_ButtonsResetEveryPass ==
  [][MainLoop =>
       /\ shm'.open_button = 0
       /\ shm'.close_button = 0
       /\ ((/\ shm.open_button # 0 => shm.status \notin {"Closed", "Closing"}
            /\ shm.close_button # 0 => shm.status # "Open")
           => shm' = IF shm.status = "Closed"
                       THEN ClosedBranch(Released(shm))
                       ELSE Released(shm))]_vars

\* The main loop is about to run with an open request pending while the car
\* is Between floors.
C23_Witness ==
  /\ mainT.pc = "top"
  /\ car.running # 0 /\ shutdown_requested.car = 0
  /\ shm.status = "Between"
  /\ shm.open_button = 1

\* C24: when the main loop reacquires the mutex after a delay and finds a
\* status other than the one it was waiting in, it writes nothing to the
\* shared record and goes back to the top of the loop; in particular Closed
\* is written only over Closing.
C24_NoTransitionAfterStatusChange ==
  [][/\ (MainOpeningDone /\ shm.status # "Opening") => shm' = shm
     /\ (MainOpenCheck /\ shm.status # "Open") => shm' = shm
     /\ (MainClosingDone /\ shm.status # "Closing") => shm' = shm
     /\ (MainBetweenDone /\ shm.status # "Between") => shm' = shm
     /\ (MainClosingDone /\ shm'.status = "Closed") => shm.status = "Closing"
     /\ (MainOpeningDone \/ MainOpenCheck \/ MainClosingDone \/ MainBetweenDone)
          => mainT'.pc = "top"]_vars

\* The main loop is in the Closing delay and the status has been turned back
\* to Opening with the door obstructed.
C24_Witness ==
  /\ mainT.pc = "closing_delay"
  /\ shm.status = "Opening"
  /\ shm.door_obstruction = 1

\* C25: when the network thread reads FLOOR f, then if f is the current floor
\* and the status is Closed the status becomes Opening and the destination
\* stays; in every other case with f a valid label the destination becomes f.
C25_FloorMessageEffect ==
  [][(/\ NetRecv
      /\ sessions[car.controller_fd].d2c # <<>>
      /\ Head(sessions[car.controller_fd].d2c).type = "FLOOR")
       => LET f == Head(sessions[car.controller_fd].d2c).args[1]
          IN  IF f = shm.current_floor /\ shm.status = "Closed"
                THEN shm' = [shm EXCEPT !.status = "Opening"]
                ELSE parse_floor(f).ok => shm'.destination_floor = f]_vars

\* C26: the snapshot of a network cycle allows a connection exactly when
\* safety_system is 1 or 2 and neither service mode nor emergency mode is
\* set; the car becomes connected, with CAR name lowest highest as the first
\* message of the new session, only in a cycle whose snapshot allows it; a
\* connected car whose snapshot does not allow it closes its session in that
\* cycle, after writing INDIVIDUAL SERVICE exactly when the snapshot had
\* individual_service_mode = 1.
C26_SessionFollowsSnapshot ==
  [][/\ NetSnapshot =>
          /\ netT'.should_connect = (/\ shm.safety_system \in {1, 2}
                                     /\ shm.individual_service_mode = 0
                                     /\ shm.emergency_mode = 0)
          /\ netT'.service_mode = shm.individual_service_mode
     /\ (car.connected = 0 /\ car'.connected # 0) =>
          /\ netT.pc = "connect" /\ netT.should_connect
          /\ sessions'[car'.controller_fd].c2d =
               <<Msg("CAR", <<car.name, car.lowest, car.highest>>)>>
     /\ (/\ netT.pc = "connect" /\ netT'.pc # "connect"
         /\ car.connected # 0 /\ ~netT.should_connect) =>
          LET fd == car.controller_fd
          IN  /\ car'.connected = 0
              /\ ~sessions'[fd].car_open
              /\ sessions'[fd].c2d =
                   IF netT.service_mode = 1 /\ sessions[fd].disp_open
                     THEN Append(sessions[fd].c2d, Msg("INDIVIDUAL SERVICE", <<>>))
                     ELSE sessions[fd].c2d]_vars

\* The car has left its session for service mode: the session is closed on
\* the car's side and INDIVIDUAL SERVICE is the last message it carries.
C26_Witness ==
  /\ car.connected = 0
  /\ netT.pc = "snapshot" /\ ~netT.should_connect /\ netT.service_mode = 1
  /\ \E fd \in Fds :
       /\ ~sessions[fd].car_open
       /\ sessions[fd].c2d # <<>>
       /\ sessions[fd].c2d[Len(sessions[fd].c2d)] = Msg("INDIVIDUAL SERVICE", <<>>)

\* C27: a CALL answered with CAR <name> leaves that car's queue non-empty,
\* and writes FLOOR <head> to the car's connection exactly when the queue
\* was empty before the call or its head has changed; otherwise nothing is
\* written to any connection.
C27_FloorSentWhenHeadChanges ==
  [][\A i \in 1..Len(cars) :
       (/\ Len(calls') = Len(calls) + 1
        /\ calls'[Len(calls')].reply = Msg("CAR", <<cars[i].name>>))
       => LET before == cars[i].queue
              after == cars'[i].queue
              fd == cars[i].fd
          IN  /\ after # <<>>
              /\ IF before = <<>> \/ Head(before) # Head(after)
                   THEN sessions' =
                          [sessions EXCEPT ![fd].d2c =
                             Append(@, Msg("FLOOR", <<Head(after)>>))]
                   ELSE sessions' = sessions]_vars

\* A call was answered by a car whose queue grew behind an unchanged head:
\* no FLOOR message was written.
C27_Witness ==
  /\ calls # <<>>
  /\ \E i \in 1..Len(cars) :
       /\ calls[1].reply = Msg("CAR", <<cars[i].name>>)
       /\ Len(cars[i].queue) > 2
       /\ sessions[cars[i].fd].d2c = <<>>

\* A call was answered by a car that was sent FLOOR <head>.
C27_WitnessSent ==
  /\ calls # <<>>
  /\ \E i \in 1..Len(cars) :
       /\ calls[1].reply = Msg("CAR", <<cars[i].name>>)
       /\ sessions[cars[i].fd].d2c = <<Msg("FLOOR", <<Head(cars[i].queue)>>)>>

\* C28: when a handler reads a STATUS message, the record takes the reported
\* status, current floor and destination; the head of the car's queue is
\* removed exactly when the reported status is Opening and the reported
\* current floor is that head, and FLOOR <new head> is then written if the
\* queue is not empty; otherwise the queue stays and nothing is written.
C28_StatusMessageEffect ==
  [][\A fd \in 1..MaxSessions :
       (/\ fd \in DOMAIN sessions
        /\ HandlerRead(fd)
        /\ sessions[fd].c2d # <<>>
        /\ Head(sessions[fd].c2d).type = "STATUS")
       => LET message == Head(sessions[fd].c2d)
              idx == sessions[fd].car
              c == cars[idx]
              arrived == /\ c.queue # <<>>
                         /\ message.args[1] = "Opening"
                         /\ message.args[2] = Head(c.queue)
              written(m) == IF /\ c.fd \in DOMAIN sessions
                               /\ sessions[c.fd].car_open
                               /\ sessions[c.fd].disp_open
                              THEN Append(sessions[c.fd].d2c, m)
                              ELSE sessions[c.fd].d2c
          IN  /\ cars'[idx].status = message.args[1]
              /\ cars'[idx].current_floor = message.args[2]
              /\ cars'[idx].destination_floor = message.args[3]
              /\ IF arrived
                   THEN /\ cars'[idx].queue = Tail(c.queue)
                        /\ sessions'[c.fd].d2c =
                             IF Tail(c.queue) # <<>>
                               THEN written(Msg("FLOOR", <<Head(Tail(c.queue))>>))
                               ELSE sessions[c.fd].d2c
                   ELSE /\ cars'[idx].queue = c.queue
                        /\ \A other \in DOMAIN sessions :
                             sessions'[other].d2c = sessions[other].d2c]_vars

\* ------------------------------------------------ claims on registrations

\* The name of the i-th car that registered.
NameOf(i) == <<64 + i>>

\* The names that register: the first car's, the 32nd car's and the 33rd's.
RegisterNames == {NameOf(1), NameOf(MAX_CARS), NameOf(MAX_CARS + 1)}

\* The record of the i-th car after k registrations: the first car is in
\* session with the queue pre; the others reported EMERGENCY and their
\* connections, with descriptors no longer open, are gone.
TableRecord(i, pre) ==
  IF i = 1
    THEN RecordAfter(NameOf(1), <<F(1), F(MaxFloor)>>, 1, pre, NoStatus)
    ELSE handle_car_message(Registered(NameOf(i), F(1), F(MaxFloor), MaxSessions + i),
                            Msg("EMERGENCY", <<>>)).rec

\* A car process connects and writes CAR name lowest highest.
Registers(name) ==
  /\ events < MaxEvents
  /\ events' = events + 1
  /\ Cardinality(Fds) < MaxSessions
  /\ ctrl.pc = "accept" /\ shutdown_requested.controller = 0
  /\ sessions' = [i \in 0..(Cardinality(Fds) + 1) |->
                    IF i = Cardinality(Fds) + 1
                      THEN Session("accept", <<Msg("CAR", <<name, F(1), F(MaxFloor)>>)>>)
                      ELSE sessions[i]]
  /\ UNCHANGED <<sigvars, shm, car, mainT, netT, open_elapsed, safety, cars, calls>>

\* The dispatcher's table is empty, one short of full, or full.
InitRegister ==
  /\ CarInit(<<F(1), F(MaxFloor)>>)
  /\ ctrl = Listening
  /\ calls = <<>>
  /\ \E k \in {0, MAX_CARS - 1, MAX_CARS}, pre \in {<<>>, <<F(1), F(2)>>} :
       /\ k = 0 => pre = <<>>
       /\ cars = [i \in 1..k |-> TableRecord(i, pre)]
       /\ sessions = IF k = 0 THEN [i \in {AbstractFd} |-> IdleSession]
                     ELSE HandlerSessions(1)

NextRegister ==
  \/ \E name \in RegisterNames : Registers(name)
  \/ \E fd \in Fds, message \in {Msg("EMERGENCY", <<>>),
                                 Msg("STATUS", <<"Opening", F(1), F(1)>>)} :
       CarSends(fd, message)
  \/ \E fd \in Fds : CarReads(fd)
  \/ \E fd \in Fds : CarHangsUp(fd)
  \/ \E fd \in Fds : HandlerAccept(fd)
  \/ \E fd \in Fds : HandlerCheck(fd)
  \/ \E fd \in Fds : HandlerRead(fd)

SpecRegister == InitRegister /\ [][NextRegister]_vars

\* C29: the dispatcher's table never holds two records with one name nor more
\* than 32 records; it never shrinks; a CAR message whose name is in the
\* table leaves the table's length alone and puts in that name's place a
\* connected record with an empty queue; a CAR message with a new name adds
\* one record when there is room and none when the table is full.
C29_OneRecordPerName ==
  /\ [](/\ Len(cars) <= MAX_CARS
        /\ \A i, j \in 1..Len(cars) : i # j => cars[i].name # cars[j].name)
  /\ [][/\ Len(cars') >= Len(cars)
        /\ \A fd \in 1..MaxSessions :
             (/\ fd \in DOMAIN sessions
              /\ HandlerAccept(fd)
              /\ sessions[fd].c2d # <<>>
              /\ Head(sessions[fd].c2d).type = "CAR")
             => LET name == Head(sessions[fd].c2d).args[1]
                    present == {i \in 1..Len(cars) : cars[i].name = name}
                IN  IF present # {}
                      THEN /\ Len(cars') = Len(cars)
                           /\ \A i \in 1..Len(cars) :
                                IF i \in present
                                  THEN /\ cars'[i].name = name
                                       /\ cars'[i].queue = <<>>
                                       /\ cars'[i].connected = 1
                                       /\ cars'[i].fd = fd
                                  ELSE cars'[i] = cars[i]
                      ELSE IF Len(cars) < MAX_CARS
                        THEN /\ Len(cars') = Len(cars) + 1
                             /\ cars'[Len(cars')].name = name
                             /\ \A i \in 1..Len(cars) : cars'[i] = cars[i]
                        ELSE cars' = cars]_vars

\* With the table full, the first car has registered again on a new
\* connection: its record is reused and its queue is empty.
C29_Witness ==
  /\ Len(cars) = MAX_CARS
  /\ cars[1].name = NameOf(1)
  /\ cars[1].fd = 2
  /\ cars[1].queue = <<>>
  /\ cars[1].connected = 1

\* ------------------------------------------- claims on the order of a queue

MaxQueue == 3

\* The floors of a taller building that calls are made for.
SweepFloors == {F(-MaxBasement), F(1), F(3), F(4), F(10)}

SweepRange == <<F(-MaxBasement), F(10)>>

\* What the car has reported since it registered.
SweepMessages ==
  {Msg("STATUS", <<st, cur, dst>>) :
     st \in {"Closed", "Closing", "Between"}, cur \in SweepFloors, dst \in SweepFloors}

\* The floors an earlier call queued.
SweepPrefills ==
  {<<>>} \cup {<<a, b>> : a \in SweepFloors, b \in SweepFloors}

\* add_to_queue as handle_call_request applies it to the car it selected.
Insert(floor) ==
  /\ Len(cars[1].queue) < MaxQueue
  /\ cars' = [cars EXCEPT ![1] = add_to_queue(@, floor)]
  /\ UNCHANGED <<sigvars, shm, car, mainT, netT, open_elapsed, safety, sessions,
                 calls, events>>

\* One car is registered, has a call queued or none, and has reported where
\* it is.
InitInsert ==
  /\ CarInit(SweepRange)
  /\ ctrl = Listening
  /\ calls = <<>>
  /\ sessions = HandlerSessions(1)
  /\ \E pre \in SweepPrefills, message \in SweepMessages :
       cars = <<RecordAfter(CarName, SweepRange, 1, pre, message)>>

NextInsert == \E floor \in SweepFloors : Insert(floor)

SpecInsert == InitInsert /\ [][NextInsert]_vars

\* The sweep direction is up: towards the destination when the car has one
\* other than its floor, else towards the head of the queue.
SweepingUp(c) ==
  IF c.current_floor # c.destination_floor
    THEN Num(c.destination_floor) > Num(c.current_floor)
    ELSE c.queue # <<>> /\ Num(Head(c.queue)) > Num(c.current_floor)

\* C30: for a car sweeping up with effective position P and a non-empty
\* queue, a floor F not yet queued is appended at the tail, the queue before
\* it staying as it was, whenever F <= P or F is below some queued floor
\* above P.
C30_NextSweepAtTail ==
  [][\A floor \in SweepFloors :
       LET c == cars[1]
           P == EffectivePosition(c)
       IN  (/\ Insert(floor)
            /\ c.queue # <<>>
            /\ \A k \in 1..Len(c.queue) : c.queue[k] # floor
            /\ SweepingUp(c)
            /\ \/ Num(floor) <= P
               \/ \E k \in 1..Len(c.queue) :
                    Num(c.queue[k]) > P /\ Num(floor) < Num(c.queue[k]))
           => cars'[1].queue = Append(c.queue, floor)]_vars

\* The car left floor 1 for floor 10; floors 10, 4 and 3 were queued in that
\* order.
C30_Witness ==
  /\ cars[1].current_floor = F(1)
  /\ cars[1].destination_floor = F(10)
  /\ cars[1].status = "Between"
  /\ cars[1].queue = <<F(10), F(4), F(3)>>

\* C31: inserting a floor into a non-empty queue leaves the head of the queue
\* where it was.
C31_HeadStable ==
  [][\A floor \in SweepFloors :
       (Insert(floor) /\ cars[1].queue # <<>>)
         => Head(cars'[1].queue) = Head(cars[1].queue)]_vars

\* The label of the floor as far below ground as floor is above it, and the
\* other way round.
Neg(floor) == F(-Num(floor))

\* The record with its position, destination and queued floors negated.
Mirror(c) ==
  [c EXCEPT !.current_floor = Neg(@),
            !.destination_floor = Neg(@),
            !.queue = [k \in 1..Len(@) |-> Neg(@[k])]]

\* C32: for a car sweeping down whose mirror image sweeps up, inserting a floor
\* gives the negation of the queue that inserting the negated floor into the
\* mirror image gives.
C32_DownMirrorsUp ==
  \A floor \in SweepFloors :
    LET c == cars[1]
    IN  (c.queue # <<>> /\ ~SweepingUp(c) /\ SweepingUp(Mirror(c)))
          => add_to_queue(c, floor).queue
               = Mirror(add_to_queue(Mirror(c), Neg(floor))).queue

\* One car is registered, has reported where it is, and has nothing queued.
InitSweep ==
  /\ CarInit(SweepRange)
  /\ ctrl = Listening
  /\ calls = <<>>
  /\ sessions = HandlerSessions(1)
  /\ \E message \in SweepMessages :
       cars = <<RecordAfter(CarName, SweepRange, 1, <<>>, message)>>

SpecSweep == InitSweep /\ [][NextInsert]_vars

\* floor lies beyond the effective position of c in its sweep direction.
Ahead(c, floor) ==
  IF SweepingUp(c) THEN Num(floor) > EffectivePosition(c)
                   ELSE Num(floor) < EffectivePosition(c)

\* floor lies on the other side of the effective position of c.
Behind(c, floor) ==
  IF SweepingUp(c) THEN Num(floor) < EffectivePosition(c)
                   ELSE Num(floor) > EffectivePosition(c)

\* C33: in a queue built by insertions from the empty queue while the car's
\* reported state stays the same, every floor beyond the effective position in
\* the sweep direction comes before every floor on the other side of it.
C33_SweepFirst ==
  LET c == cars[1]
  IN  \A j, k \in 1..Len(c.queue) :
        (Ahead(c, c.queue[k]) /\ Behind(c, c.queue[j])) => k < j

\* ---------------------------------------------- further claims on the monitor

\* C34: a cycle of the monitor that starts with emergency_mode = 0 and with
\* emergency_stop = 1 or overload = 1 ends with emergency_mode = 1, and with
\* emergency_stop = 0 if it started with emergency_stop = 1.
C34_StopAndOverloadRaiseEmergency ==
  [][(/\ SafetyCycle
      /\ shm.emergency_mode = 0
      /\ (shm.emergency_stop = 1 \/ shm.overload = 1))
       => /\ shm'.emergency_mode = 1
          /\ shm.emergency_stop = 1 => shm'.emergency_stop = 0]_vars

\* The overload sensor tripped, nothing else happened, and the monitor has put
\* the car in emergency mode.
C34_Witness ==
  /\ safety.ran
  /\ events = 1
  /\ shm.overload = 1
  /\ shm.emergency_mode = 1
  /\ shm.safety_system < 3

\* The shared record s satisfies the invariants of the data model.
DataModel(s) ==
  /\ InCarRange(s.current_floor)
  /\ InCarRange(s.destination_floor)
  /\ s.status \in {"Opening", "Open", "Closing", "Closed", "Between"}
  /\ \A flag \in {s.open_button, s.close_button, s.door_obstruction, s.overload,
                  s.emergency_stop, s.individual_service_mode, s.emergency_mode} :
       flag <= 1
  /\ s.safety_system <= 3
  /\ s.door_obstruction = 1 => s.status \in {"Opening", "Closing"}

\* C35: a cycle of the monitor that starts with emergency_mode other than 1
\* and with an invariant of the data model violated ends with
\* emergency_mode = 1.
C35_ViolationRaisesEmergency ==
  [][(SafetyCycle /\ shm.emergency_mode # 1 /\ ~DataModel(shm))
       => shm'.emergency_mode = 1]_vars

\* C36: no step of the monitor takes emergency_mode from 1 to 0, and none
\* changes current_floor, destination_floor, open_button, close_button,
\* door_obstruction, overload or individual_service_mode.
C36_MonitorFrame ==
  [][(SafetyCycle \/ SafetyStart \/ SafetyStop)
       => /\ shm.emergency_mode = 1 => shm'.emergency_mode = 1
          /\ shm'.current_floor = shm.current_floor
          /\ shm'.destination_floor = shm.destination_floor
          /\ shm'.open_button = shm.open_button
          /\ shm'.close_button = shm.close_button
          /\ shm'.door_obstruction = shm.door_obstruction
          /\ shm'.overload = shm.overload
          /\ shm'.individual_service_mode = shm.individual_service_mode]_vars

\* The monitor has put an overloaded car in emergency mode while a press of
\* the open button was pending: both flags are as they were.
C36_Witness ==
  /\ safety.ran
  /\ shm.emergency_mode = 1
  /\ shm.overload = 1
  /\ shm.open_button = 1
  /\ shm.safety_system < 3

\* ------------------------------------------ further claims on the dispatcher

\* C37: a step that gives a connected car's queue a new head writes FLOOR
\* <head> to the car's connection, and a FLOOR message is written to a
\* connection only for the head of the queue of a record that has that
\* connection; so the last FLOOR sent in a session names the head of the queue.
C37_FloorNamesHead ==
  [][/\ \A i \in 1..Len(cars') :
          (/\ cars'[i].connected # 0
           /\ cars'[i].queue # <<>>
           /\ IF i > Len(cars) THEN TRUE
              ELSE IF cars[i].queue = <<>> THEN TRUE
              ELSE Head(cars[i].queue) # Head(cars'[i].queue))
          => LET fd == cars'[i].fd
             IN  /\ fd \in DOMAIN sessions
                 /\ (sessions[fd].car_open /\ sessions[fd].disp_open)
                      => sessions'[fd].d2c =
                           Append(sessions[fd].d2c,
                                  Msg("FLOOR", <<Head(cars'[i].queue)>>))
     /\ \A fd \in DOMAIN sessions :
          (IF fd \in DOMAIN sessions'
             THEN Len(sessions'[fd].d2c) > Len(sessions[fd].d2c)
             ELSE FALSE)
          => \E i \in 1..Len(cars') :
               /\ cars'[i].fd = fd
               /\ cars'[i].queue # <<>>
               /\ sessions'[fd].d2c[Len(sessions'[fd].d2c)]
                    = Msg("FLOOR", <<Head(cars'[i].queue)>>)]_vars

\* The car opened its doors at the head of its queue; the head was removed
\* and FLOOR was sent for the next one.
C37_Witness ==
  /\ calls = <<>>
  /\ cars[1].connected # 0
  /\ cars[1].queue = <<F(2)>>
  /\ sessions[cars[1].fd].d2c = <<Msg("FLOOR", <<F(2)>>)>>

\* The place of floor in the queue q, 0 if it is not queued.
Place(q, floor) ==
  IF \E k \in 1..Len(q) : q[k] = floor
    THEN CHOOSE k \in 1..Len(q) : q[k] = floor
    ELSE 0

\* C38: right after a CALL from source to a different destination is
\* answered with CAR name, the source is queued ahead of the destination in
\* that car's queue.
C38_SourceBeforeDestination ==
  [][\A i \in 1..Len(cars) :
       (/\ Len(calls') = Len(calls) + 1
        /\ calls'[Len(calls')].reply = Msg("CAR", <<cars[i].name>>)
        /\ calls'[Len(calls')].source # calls'[Len(calls')].destination)
       => LET q == cars'[i].queue
              src == Place(q, calls'[Len(calls')].source)
              dst == Place(q, calls'[Len(calls')].destination)
          IN  src # 0 /\ dst # 0 /\ src < dst]_vars

\* ------------------------------------------------- claims on current_floor

\* The floor one step from floor towards destination; there is no floor 0.
OneFloorTowards(floor, destination) ==
  LET direction == IF Num(destination) > Num(floor) THEN 1 ELSE -1
      n == Num(floor) + direction
  IN  F(IF n = 0 THEN direction ELSE n)

\* C39: current_floor changes only in the Between step of the main loop, and
\* a Between step taken in status Between moves current_floor by one floor
\* towards destination_floor.
C39_CurrentFloorByBetweenStep ==
  [][/\ shm'.current_floor # shm.current_floor
          => (MainBetweenDone /\ shm.status = "Between")
     /\ (MainBetweenDone /\ shm.status = "Between")
          => shm'.current_floor
               = OneFloorTowards(shm.current_floor, shm.destination_floor)]_vars

\* ------------------------------------------- claims on a car's two sessions

\* C40: a handler that reads a message on a connection other than the one
\* its car's record now has (the car has registered again since) leaves every
\* record as it is.
C40_OldSessionLeavesRecord ==
  [][\A fd \in 1..MaxSessions :
       (IF fd \in DOMAIN sessions
          THEN /\ HandlerRead(fd)
               /\ cars[sessions[fd].car].fd # fd
          ELSE FALSE)
       => cars' = cars]_vars

=============================================================================
